---- MODULE Spec2Model ----
(***************************************************************************)
(* News novelty / deduplication engine of Aktien-Briefing:                 *)
(*   utils/news_memory.py   canonicalisation, fingerprints, memory store   *)
(*   core/news_novelty.py   filter_news_by_novelty (pass 1, embed, pass 2) *)
(*   core/briefing_agent.py the pipeline run around the filter             *)
(*                                                                         *)
(* Representation.  A text is a sequence of one-character strings.  A URL  *)
(* is the record of its urlparse components; the empty string is the URL   *)
(* whose components are all empty.  A SHA-256 digest is a tagged tuple of  *)
(* the hashed value (collision free); the empty string standing for "no    *)
(* hash" is the empty tuple.  A cosine similarity is the exact number      *)
(* num / sqrt(den2), kept as the pair (num, den2), so that comparisons are *)
(* exact integer arithmetic (floating-point rounding is not modelled).     *)
(* A timestamp is a whole day number; an unparseable one has valid=FALSE.  *)
(***************************************************************************)
EXTENDS Integers, Sequences, FiniteSets, TLC

\* ------------------------------------------------------------------ bounds
MaxArticles == 2
MaxMemory == 1
MaxExtra == 1
MaxDay == 3
MaxFetch == 1
MaxRuns == 3
MaxClock == 2
MaxStoreInit == 2
MaxStoreLen == 3
MaxSaves == 2
MaxWww == 2
MaxQuery == 2
MaxTitle == 3
MaxDim == 2
MaxCalls == 2

\* ------------------------------------------------------ program constants
_EMBEDDING_BATCH_SIZE == 32

\* Python's None where a timestamp is expected
None == [none |-> TRUE]

\* ---------------------------------------------------------------- strings
UpperChars == {"A", "B"}
LowerChars == {"a", "b"}
DigitChars == {"1"}
SpaceChars == {" ", "\n"}

LowerChar(c) ==
    CASE c = "A" -> "a"
      [] c = "B" -> "b"
      [] OTHER -> c

IsAlnum(c) == c \in UpperChars \cup LowerChars \cup DigitChars

IsSpace(c) == c \in SpaceChars

RECURSIVE SplitWords(_, _, _)
\* str.split(): the maximal runs of non-whitespace characters of text, in order
SplitWords(text, cur, acc) ==
    IF text = <<>>
    THEN IF cur = <<>> THEN acc ELSE Append(acc, cur)
    ELSE IF IsSpace(Head(text))
         THEN SplitWords(Tail(text), <<>>, IF cur = <<>> THEN acc ELSE Append(acc, cur))
         ELSE SplitWords(Tail(text), Append(cur, Head(text)), acc)

RECURSIVE JoinWords(_)
\* " ".join(words)
JoinWords(words) ==
    IF words = <<>> THEN <<>>
    ELSE IF Len(words) = 1 THEN words[1]
    ELSE words[1] \o <<" ">> \o JoinWords(Tail(words))

normalize_text(text) ==
    IF text = <<>> THEN <<>>
    ELSE LET lowered == [i \in 1..Len(text) |-> LowerChar(text[i])]
             cleaned == [i \in 1..Len(text) |->
                            IF IsAlnum(lowered[i]) \/ IsSpace(lowered[i])
                            THEN lowered[i] ELSE " "]
         IN JoinWords(SplitWords(cleaned, <<>>, <<>>))

_sha256(x) == <<"sha256", x>>

NoHash == <<>>

build_title_fingerprint(title) == _sha256(normalize_text(title))

\* ------------------------------------------------------------------- URLs
TRACKING_PARAMS ==
    {"utm_source", "utm_medium", "utm_campaign", "utm_term", "utm_content",
     "gclid", "fbclid", "mc_cid", "mc_eid", "ref", "src", "mkt", "oc", "aid"}

LowerStr(s) ==
    CASE s = "HTTPS" -> "https"
      [] s = "A.COM" -> "a.com"
      [] s = "UTM_SOURCE" -> "utm_source"
      [] s = "Ref" -> "ref"
      [] OTHER -> s

\* the query keys of the model in Python's string order (code points)
KeyOrder == <<"Ref", "UTM_SOURCE", "b", "id", "ref", "utm_source">>

KeyRank(k) == CHOOSE i \in 1..Len(KeyOrder) : KeyOrder[i] = k

EmptyUrl ==
    [scheme |-> "", www |-> 0, host |-> "", path |-> "", query |-> <<>>, fragment |-> ""]

RECURSIVE FilterQuery(_)
\* [(k, v) for k, v in query if k.lower() not in TRACKING_PARAMS]
FilterQuery(query) ==
    IF query = <<>> THEN <<>>
    ELSE IF LowerStr(Head(query)[1]) \in TRACKING_PARAMS
         THEN FilterQuery(Tail(query))
         ELSE <<Head(query)>> \o FilterQuery(Tail(query))

RECURSIVE InsertByKey(_, _)
\* insertion behind every pair whose key is not greater: a stable sort step
InsertByKey(sorted, kv) ==
    IF sorted = <<>> THEN <<kv>>
    ELSE IF KeyRank(Head(sorted)[1]) <= KeyRank(kv[1])
         THEN <<Head(sorted)>> \o InsertByKey(Tail(sorted), kv)
         ELSE <<kv>> \o sorted

RECURSIVE SortByKey(_)
\* list.sort(key=lambda x: x[0]), which is stable
SortByKey(query) ==
    IF query = <<>> THEN <<>>
    ELSE InsertByKey(SortByKey(SubSeq(query, 1, Len(query) - 1)), query[Len(query)])

canonicalize_url(url) ==
    IF url = EmptyUrl THEN EmptyUrl
    ELSE [scheme   |-> LowerStr(url.scheme),
          www      |-> IF url.www > 0 THEN url.www - 1 ELSE 0,
          host     |-> LowerStr(url.host),
          path     |-> url.path,
          query    |-> SortByKey(FilterQuery(url.query)),
          fragment |-> ""]

\* hashlib.sha256(canonical_url...).hexdigest() if canonical_url else ""
UrlHash(link) ==
    LET canonical_url == canonicalize_url(link)
    IN IF canonical_url # EmptyUrl THEN _sha256(canonical_url) ELSE NoHash

\* ---------------------------------------------------------------- cosine
RECURSIVE DotFrom(_, _, _)
DotFrom(a, b, i) == IF i > Len(a) THEN 0 ELSE a[i] * b[i] + DotFrom(a, b, i + 1)

Zero == [num |-> 0, den2 |-> 1]

\* the quotient without the test of the norms
cosine_similarity_unguarded(vec_a, vec_b) ==
    IF vec_a = <<>> \/ vec_b = <<>> \/ Len(vec_a) # Len(vec_b) THEN Zero
    ELSE [num |-> DotFrom(vec_a, vec_b, 1),
          den2 |-> DotFrom(vec_a, vec_a, 1) * DotFrom(vec_b, vec_b, 1)]

\* dot / (norm_a * norm_b) as the pair (dot, norm_a^2 * norm_b^2)
cosine_similarity(vec_a, vec_b) ==
    IF vec_a = <<>> \/ vec_b = <<>> \/ Len(vec_a) # Len(vec_b) THEN Zero
    ELSE LET dot == DotFrom(vec_a, vec_b, 1)
             na2 == DotFrom(vec_a, vec_a, 1)
             nb2 == DotFrom(vec_b, vec_b, 1)
         IN IF na2 = 0 \/ nb2 = 0 THEN Zero
            ELSE [num |-> dot, den2 |-> na2 * nb2]

\* s > t for s = s.num/sqrt(s.den2), t = t.num/sqrt(t.den2)
ScoreGt(s, t) ==
    IF s.num >= 0 /\ t.num >= 0 THEN s.num * s.num * t.den2 > t.num * t.num * s.den2
    ELSE IF s.num >= 0 THEN TRUE
    ELSE IF t.num >= 0 THEN FALSE
    ELSE s.num * s.num * t.den2 < t.num * t.num * s.den2

ScoreGe(s, t) == ~ScoreGt(t, s)

\* ----------------------------------------------------------- memory store
\* datetime.fromisoformat(...): the day of a valid timestamp, None otherwise
_parse_iso(dt_str) == IF dt_str.valid THEN [none |-> FALSE, day |-> dt_str.day] ELSE None

Timestamp(day) == [valid |-> TRUE, day |-> day]

BadTimestamp == [valid |-> FALSE, day |-> 0]

\* a timestamp with a UTC offset, as in "2026-02-20T07:00:00+00:00": fromisoformat
\* reads it as an offset-aware datetime
AwareTimestamp(day) == [valid |-> TRUE, day |-> day, aware |-> TRUE]

IsAware(dt_str) == "aware" \in DOMAIN dt_str

\* sent_at >= cutoff of an offset-aware sent_at and the naive cutoff of
\* datetime.utcnow(): TypeError
CompareRaises(entry) == entry.date_sent.valid /\ IsAware(entry.date_sent)

NotExpired(entry, cutoff) ==
    LET sent_at == _parse_iso(entry.date_sent)
    IN sent_at = None \/ sent_at.day >= cutoff

prune_memory(mem, retention_days, today) ==
    IF retention_days <= 0 THEN mem
    ELSE [mem EXCEPT !.entries = SelectSeq(mem.entries, LAMBDA entry : NotExpired(entry, today - retention_days))]

OfStock(entry, name) == entry.stock_name = name

entries_for_stock(mem, name, lookback_days, today) ==
    IF lookback_days <= 0 THEN SelectSeq(mem.entries, LAMBDA entry : OfStock(entry, name))
    ELSE SelectSeq(mem.entries, LAMBDA entry : OfStock(entry, name)
                                              /\ NotExpired(entry, today - lookback_days))

\* is_exact_duplicate without its two flags: every equal hash or fingerprint matches
is_exact_duplicate_unflagged(stock_entries, canonical_url_hash, title_fingerprint, exact_url_dedupe, exact_title_dedupe) ==
    \E i \in 1..Len(stock_entries) :
        \/ /\ canonical_url_hash # NoHash
           /\ stock_entries[i].canonical_url_hash = canonical_url_hash
        \/ /\ title_fingerprint # NoHash
           /\ stock_entries[i].title_fingerprint = title_fingerprint

is_exact_duplicate(stock_entries, canonical_url_hash, title_fingerprint, exact_url_dedupe, exact_title_dedupe) ==
    \E i \in 1..Len(stock_entries) :
        \/ /\ exact_url_dedupe
           /\ canonical_url_hash # NoHash
           /\ stock_entries[i].canonical_url_hash = canonical_url_hash
        \/ /\ exact_title_dedupe
           /\ title_fingerprint # NoHash
           /\ stock_entries[i].title_fingerprint = title_fingerprint

NoMatch == [found |-> FALSE, entry |-> 0, score |-> Zero]

RECURSIVE BestEntryFrom(_, _, _, _, _)
\* the loop of find_semantic_match: strict > keeps the first entry of the best score
BestEntryFrom(stock_entries, candidate_embedding, i, best_entry, best_score) ==
    IF i > Len(stock_entries) THEN [entry |-> best_entry, score |-> best_score]
    ELSE LET score == cosine_similarity(candidate_embedding, stock_entries[i].topic_embedding)
         IN IF ScoreGt(score, best_score)
            THEN BestEntryFrom(stock_entries, candidate_embedding, i + 1, i, score)
            ELSE BestEntryFrom(stock_entries, candidate_embedding, i + 1, best_entry, best_score)

\* best_entry is an index into stock_entries, 0 for Python's None; a candidate
\* embedding of None is the empty vector (every use of it is a truth test)
find_semantic_match(stock_entries, candidate_embedding, threshold) ==
    IF candidate_embedding = <<>> THEN NoMatch
    ELSE LET best == BestEntryFrom(stock_entries, candidate_embedding, 1, 0, Zero)
         IN IF best.entry # 0 /\ ScoreGe(best.score, threshold)
            THEN [found |-> TRUE, entry |-> best.entry, score |-> best.score]
            ELSE NoMatch

build_memory_entry(name, article, topic_embedding, date_sent) ==
    [stock_name         |-> name,
     date_sent          |-> date_sent,
     canonical_url_hash |-> UrlHash(article.link),
     title_fingerprint  |-> build_title_fingerprint(article.title),
     topic_embedding    |-> topic_embedding,
     link               |-> article.link,
     title              |-> article.title]

\* a record_sent_news that skips the entries the store already holds
record_sent_news_deduplicating(mem, entries) == [mem EXCEPT !.entries = mem.entries \o SelectSeq(entries, LAMBDA e : \A i \in 1..Len(mem.entries) : mem.entries[i] # e)]

record_sent_news(mem, entries) == [mem EXCEPT !.entries = mem.entries \o entries]

\* ------------------------------------------------- filter_news_by_novelty
\* _embedding_input: normalize_text(f"{title}\n{content[:1000]}")
_embedding_input(article) ==
    normalize_text(article.title \o <<"\n">>
                   \o SubSeq(article.content, 1,
                             IF Len(article.content) > 1000 THEN 1000 ELSE Len(article.content)))

\* the per-article fields the filter attaches in place, before any is set
NoAttrs == [keys |-> {}, _canonical_url_hash |-> NoHash, _title_fingerprint |-> NoHash,
            _novelty_embedding |-> <<>>]

Pass1Init(raw) ==
    [i                       |-> 1,
     candidates              |-> <<>>,
     suppressed_known_topics |-> <<>>,
     seen_url_hashes         |-> {},
     seen_title_fingerprints |-> {},
     exact_dupes             |-> 0,
     attrs                   |-> [i \in 1..Len(raw) |-> NoAttrs]]

\* one iteration of the pass-1 loop, for raw[st.i]
Pass1Step(st, raw, stock_entries, config) ==
    LET i        == st.i
        article  == raw[i]
        url_hash == UrlHash(article.link)
        title_fp == build_title_fingerprint(article.title)
        exact_duplicate_in_run ==
            \/ config.exact_url_dedupe /\ url_hash # NoHash /\ url_hash \in st.seen_url_hashes
            \/ config.exact_title_dedupe /\ title_fp # NoHash
                  /\ title_fp \in st.seen_title_fingerprints
        exact_duplicate_in_memory ==
            is_exact_duplicate(stock_entries, url_hash, title_fp,
                               config.exact_url_dedupe, config.exact_title_dedupe)
    IN IF exact_duplicate_in_run \/ exact_duplicate_in_memory
       THEN [st EXCEPT
                !.i = @ + 1,
                !.exact_dupes = @ + 1,
                !.suppressed_known_topics =
                    Append(@, [article |-> i, title |-> article.title, link |-> article.link,
                               reason |-> "exact_duplicate"])]
       ELSE [st EXCEPT
                !.i = @ + 1,
                !.seen_url_hashes = @ \cup {url_hash},
                !.seen_title_fingerprints = @ \cup {title_fp},
                !.attrs[i] = [@ EXCEPT !.keys = @ \cup {"_canonical_url_hash", "_title_fingerprint"},
                                       !._canonical_url_hash = url_hash,
                                       !._title_fingerprint = title_fp],
                !.candidates = Append(@, i)]

RECURSIVE Pass1Loop(_, _, _, _)
Pass1Loop(st, raw, stock_entries, config) ==
    IF st.i > Len(raw) THEN st
    ELSE Pass1Loop(Pass1Step(st, raw, stock_entries, config), raw, stock_entries, config)

\* lines 86-132: the memory window of the stock and the exact-duplicate pass
Pass1(name, raw, mem, config, today) ==
    Pass1Loop(Pass1Init(raw), raw,
              entries_for_stock(mem, name, config.lookback_days, today), config)

\* what _embed_texts returns for Python's None
NoEmbeddings == [ok |-> FALSE, vectors |-> <<>>]

\* Python's truth value of the list-or-None that _embed_texts returned
Truthy(embeddings) == embeddings.ok /\ embeddings.vectors # <<>>

RECURSIVE BestScoreFrom(_, _, _, _)
\* the in-batch loop: the highest score over pool, starting from 0.0
BestScoreFrom(candidate_embedding, pool, i, best_score) ==
    IF i > Len(pool) THEN best_score
    ELSE LET score == cosine_similarity(candidate_embedding, pool[i])
         IN IF ScoreGt(score, best_score)
            THEN BestScoreFrom(candidate_embedding, pool, i + 1, score)
            ELSE BestScoreFrom(candidate_embedding, pool, i + 1, best_score)

\* a filter that matches candidates against the memory only
SemanticMatchRunOff(embeddings, candidate_embedding, new_item_embeddings, known_semantic_embeddings, threshold) ==
    [found |-> FALSE, score |-> Zero]

\* lines 158-168: the match against the embeddings of this batch
SemanticMatchRun(embeddings, candidate_embedding, new_item_embeddings, known_semantic_embeddings, threshold) ==
    IF Truthy(embeddings) /\ candidate_embedding # <<>> /\ new_item_embeddings # <<>>
    THEN LET best_score == BestScoreFrom(candidate_embedding,
                                         new_item_embeddings \o known_semantic_embeddings,
                                         1, Zero)
         IN IF ScoreGe(best_score, threshold)
            THEN [found |-> TRUE, score |-> best_score]
            ELSE [found |-> FALSE, score |-> Zero]
    ELSE [found |-> FALSE, score |-> Zero]

Pass2Init(p1) ==
    [k                         |-> 1,
     new_items                 |-> <<>>,
     new_item_embeddings       |-> <<>>,
     known_semantic_embeddings |-> <<>>,
     suppressed_known_topics   |-> p1.suppressed_known_topics,
     semantic_dupes            |-> 0,
     attrs                     |-> p1.attrs,
     raised                    |-> FALSE]

\* a filter that returns one item at most
AcceptNewCapped(new_items, i) == IF Len(new_items) >= 1 THEN new_items ELSE Append(new_items, i)

\* a filter that returns the newest item first
AcceptNewFirst(new_items, i) == <<i>> \o new_items

\* where a new item goes in new_items
AcceptNew(new_items, i) == Append(new_items, i)

\* one iteration of the pass-2 loop, for candidate st.k (counted from 1)
Pass2Step(st, raw, candidates, stock_entries, embeddings, config) ==
    IF Truthy(embeddings) /\ st.k > Len(embeddings.vectors)
    THEN [st EXCEPT !.raised = TRUE]        \* embeddings[idx]: IndexError
    ELSE
    LET k == st.k
        i == candidates[k]
        article == raw[i]
        candidate_embedding == IF Truthy(embeddings) THEN embeddings.vectors[k] ELSE <<>>
        semantic_match_memory ==
            IF Truthy(embeddings)
            THEN find_semantic_match(stock_entries, candidate_embedding,
                                     config.semantic_threshold)
            ELSE NoMatch
        semantic_match_run ==
            SemanticMatchRun(embeddings, candidate_embedding, st.new_item_embeddings,
                             st.known_semantic_embeddings, config.semantic_threshold)
    IN IF semantic_match_memory.found \/ semantic_match_run.found
       THEN [st EXCEPT
                !.k = @ + 1,
                !.semantic_dupes = @ + 1,
                !.suppressed_known_topics =
                    Append(@, [article |-> i, title |-> article.title, link |-> article.link,
                               reason |-> "semantic_duplicate",
                               similarity |-> IF semantic_match_memory.found
                                              THEN semantic_match_memory.score
                                              ELSE semantic_match_run.score]),
                !.known_semantic_embeddings =
                    IF candidate_embedding # <<>> THEN Append(@, candidate_embedding) ELSE @]
       ELSE [st EXCEPT
                !.k = @ + 1,
                !.attrs[i] = [@ EXCEPT !.keys = @ \cup {"_novelty_embedding"},
                                       !._novelty_embedding = candidate_embedding],
                !.new_items = AcceptNew(@, i),
                !.new_item_embeddings =
                    IF candidate_embedding # <<>> THEN Append(@, candidate_embedding) ELSE @]

RECURSIVE Pass2Loop(_, _, _, _, _, _)
Pass2Loop(st, raw, candidates, stock_entries, embeddings, config) ==
    IF st.k > Len(candidates) \/ st.raised THEN st
    ELSE Pass2Loop(Pass2Step(st, raw, candidates, stock_entries, embeddings, config),
                   raw, candidates, stock_entries, embeddings, config)

\* lines 145-190: the semantic pass over the pass-1 survivors
Pass2(name, raw, mem, config, today, p1, embeddings) ==
    Pass2Loop(Pass2Init(p1), raw, p1.candidates,
              entries_for_stock(mem, name, config.lookback_days, today), embeddings, config)

\* an early return that hands the whole batch back as new
EarlyResultAllNew(raw, p1) ==
    [new_items               |-> [i \in 1..Len(raw) |-> i],
     suppressed_known_topics |-> p1.suppressed_known_topics,
     stats                   |-> [fetched |-> Len(raw), exact_dupes |-> p1.exact_dupes,
                                  semantic_dupes |-> 0, new_count |-> Len(raw)],
     candidate_embeddings    |-> <<>>]

\* lines 134-140: the result when no article survives pass 1
EarlyResult(raw, p1) ==
    [new_items               |-> <<>>,
     suppressed_known_topics |-> p1.suppressed_known_topics,
     stats                   |-> [fetched |-> Len(raw), exact_dupes |-> p1.exact_dupes,
                                  semantic_dupes |-> 0, new_count |-> 0],
     candidate_embeddings    |-> <<>>]

\* a result that counts every pass-1 survivor as new
FinalResultCountingCandidates(raw, p1, p2, embeddings) ==
    [new_items               |-> p2.new_items,
     suppressed_known_topics |-> p2.suppressed_known_topics,
     stats                   |-> [fetched |-> Len(raw), exact_dupes |-> p1.exact_dupes,
                                  semantic_dupes |-> p2.semantic_dupes,
                                  new_count |-> Len(p1.candidates)],
     candidate_embeddings    |-> IF Truthy(embeddings) THEN embeddings.vectors ELSE <<>>]

\* lines 192-199: the result after pass 2
FinalResult(raw, p1, p2, embeddings) ==
    [new_items               |-> p2.new_items,
     suppressed_known_topics |-> p2.suppressed_known_topics,
     stats                   |-> [fetched |-> Len(raw), exact_dupes |-> p1.exact_dupes,
                                  semantic_dupes |-> p2.semantic_dupes,
                                  new_count |-> Len(p2.new_items)],
     candidate_embeddings    |-> IF Truthy(embeddings) THEN embeddings.vectors ELSE <<>>]

\* ------------------------------------------------------------ input data
Title_Ab == <<"A", "b", "!">>
Title_ab == <<"a", "b">>
Title_b_a == <<"b", " ", " ", "a">>
Title_punct == <<"!">>

Link_1 ==
    [scheme |-> "HTTPS", www |-> 1, host |-> "a.com", path |-> "/n",
     query |-> << <<"utm_source", "x">>, <<"id", "1">> >>, fragment |-> "top"]
Link_1b ==
    [scheme |-> "https", www |-> 0, host |-> "a.com", path |-> "/n",
     query |-> << <<"id", "1">> >>, fragment |-> ""]
Link_2 ==
    [scheme |-> "https", www |-> 0, host |-> "a.com", path |-> "/n",
     query |-> << <<"id", "2">> >>, fragment |-> ""]

Article(title, link) == [title |-> title, content |-> <<"b">>, link |-> link]

\* two articles of one title (up to case and punctuation), two of one URL (up to
\* tracking parameters), and one without title and link
Articles ==
    {Article(Title_Ab, Link_1), Article(Title_ab, Link_2), Article(Title_b_a, Link_1b),
     Article(<<>>, EmptyUrl)}

\* article i of a batch longer than one embedding request: i written to base 3
\* with the digits a, b, 1 as its title, and no link
BigArticle(i) ==
    LET char == <<"a", "b", "1">>
    IN Article(<<char[((i \div 27) % 3) + 1], char[((i \div 9) % 3) + 1],
                 char[((i \div 3) % 3) + 1], char[(i % 3) + 1]>>, EmptyUrl)

BigBatch == [i \in 1..(_EMBEDDING_BATCH_SIZE + MaxExtra) |-> BigArticle(i)]

SeqsUpTo(S, n) == UNION {[1..k -> S] : k \in 0..n}

Batches == SeqsUpTo(Articles, MaxArticles)

Vecs == {<<1, 0>>, <<0, 1>>, <<1, 1>>}

\* 0.7 as a score: cos((1,0),(1,1)) = 0.7071 lies above it, cos((1,0),(0,1)) = 0 below
Threshold_07 == [num |-> 7, den2 |-> 100]

Thresholds == {Zero, Threshold_07}

\* 1.0 as a score: cos of two equal directions reaches it exactly
Threshold_1 == [num |-> 1, den2 |-> 1]

Config(lookback, threshold, url, title) ==
    [lookback_days |-> lookback, semantic_threshold |-> threshold,
     exact_url_dedupe |-> url, exact_title_dedupe |-> title]

Configs ==
    {Config(2, t, u, ti) : t \in Thresholds, u \in BOOLEAN, ti \in BOOLEAN}
        \cup {Config(0, Threshold_07, TRUE, TRUE), Config(2, Threshold_1, TRUE, TRUE)}

\* entries earlier runs can have recorded, seen from day `today`: one of the
\* stock sent yesterday, one of the stock sent before the lookback window, one of
\* another stock, and one with an unreadable timestamp and no embedding
MemoryEntries(day) ==
    <<build_memory_entry("Microsoft", Article(Title_Ab, Link_1), <<1, 0>>, Timestamp(day - 1)),
      build_memory_entry("Microsoft", Article(Title_ab, Link_2), <<0, 1>>, Timestamp(0)),
      build_memory_entry("Nvidia", Article(Title_b_a, Link_1b), <<1, 1>>, Timestamp(day - 1)),
      build_memory_entry("Microsoft", Article(Title_punct, EmptyUrl), <<>>, BadTimestamp)>>

RECURSIVE Pick(_, _, _)
\* the elements of list at the positions in T, in list order, from position i on
Pick(list, T, i) ==
    IF i > Len(list) THEN <<>>
    ELSE IF i \in T THEN <<list[i]>> \o Pick(list, T, i + 1) ELSE Pick(list, T, i + 1)

\* the stores of at most n of these entries, in the order they were recorded
Memories(day, n) ==
    {[version |-> 1, entries |-> Pick(MemoryEntries(day), T, 1)] :
        T \in {T \in SUBSET (1..Len(MemoryEntries(day))) : Cardinality(T) <= n}}

\* two vectors closer to each other (0.9487) than either is to a vector of Vecs
CloseVecs == <<<<1, 2>>, <<1, 1>>>>

\* what the provider may answer to a request of n texts: any vectors, possibly
\* fewer than n (a malformed response), and for two texts the two close vectors;
\* for a long request one vector throughout
ProviderResponses(n) ==
    IF n <= MaxArticles THEN SeqsUpTo(Vecs, n) \cup {r \in {CloseVecs} : n = Len(r)}
    ELSE {[i \in 1..k |-> v] : v \in Vecs, k \in {n - 1, n}}

Range(list) == {list[n] : n \in 1..Len(list)}

\* the entries a store handed to the store functions may hold: those of
\* MemoryEntries, and one of the stock whose timestamp carries a UTC offset
StoreEntries ==
    Range(MemoryEntries(MaxDay))
        \cup {build_memory_entry("Microsoft", Article(Title_b_a, Link_1b), <<>>,
                                 AwareTimestamp(MaxDay - 1))}

\* the stores handed to the store functions
StoreInputs == [version : {1}, entries : SeqsUpTo(StoreEntries, MaxStoreInit)]

\* the lookback_days and retention_days of the calls
DayInputs == {-1, 0, 1, MaxDay}

\* the stock names of the calls: two with entries, one without
NameInputs == {"Microsoft", "Nvidia", "Tesla"}

\* ---------------------------------------------------------- pipeline runs
EmptyStore == [version |-> 1, entries |-> <<>>]

\* the store file: whether it exists, what reading and parsing it gives ("object":
\* a JSON object; "not_object": another JSON value; "invalid": not JSON;
\* "unreadable": read_text raises), and for an object whether it has the key
\* version, what its key entries holds ("list", "other", "absent"), and the values
StoreFile(kind, has_version, entries_kind, data) ==
    [exists |-> TRUE, kind |-> kind, has_version |-> has_version,
     entries_kind |-> entries_kind, data |-> data]

\* the store file before the first save
NoFile == [StoreFile("object", TRUE, "list", EmptyStore) EXCEPT !.exists = FALSE]

\* a load_memory that trusts the file to hold a store
load_memory_unchecked(file) == file.data

\* load_memory: every exception of the read and the parse ends in the empty store
load_memory(file) ==
    IF ~file.exists THEN EmptyStore
    ELSE IF file.kind # "object" THEN EmptyStore
    ELSE [version |-> IF file.has_version THEN file.data.version ELSE 1,
          entries |-> IF file.entries_kind = "list" THEN file.data.entries ELSE <<>>]

\* save_memory: the file holds the serialized store
save_memory(mem) == StoreFile("object", TRUE, "list", mem)

\* the whole of filter_news_by_novelty, given what the provider answers to the call
filter_news_by_novelty(name, raw, mem, config, now, embeddings) ==
    LET st1 == Pass1(name, raw, mem, config, now)
    IN IF st1.candidates = <<>>
       THEN [raised |-> FALSE, attrs |-> st1.attrs, result |-> EarlyResult(raw, st1)]
       ELSE LET st2 == Pass2(name, raw, mem, config, now, st1, embeddings)
            IN [raised |-> st2.raised, attrs |-> st2.attrs,
                result |-> FinalResult(raw, st1, st2, embeddings)]

\* candidate_articles without the truncation
TruncateNothing(list, max_news) == list

\* candidate_articles[:max_news]
Truncate(list, max_news) ==
    IF max_news < 0 \/ Len(list) <= max_news THEN list ELSE SubSeq(list, 1, max_news)

\* the articles of new_items that candidate_articles[:max_news] leaves out
CutArticles(raw, new_items, max_news, filtered) ==
    IF filtered
    THEN {raw[new_items[k]] : k \in (Len(Truncate(new_items, max_news)) + 1)..Len(new_items)}
    ELSE {}

\* the two places a run starts from: the scheduler's job and /briefing_now
RunIds == {"scheduled", "manual"}

\* the one stock of the portfolio
RunStock == "Microsoft"

\* what fetch_all_sources may return for the stock: at most MaxFetch articles, of
\* two that share their URL up to tracking parameters and differ in their title,
\* or the two together
Fetches ==
    SeqsUpTo({Article(Title_Ab, Link_1), Article(Title_b_a, Link_1b)}, MaxFetch)
        \cup {<<Article(Title_Ab, Link_1), Article(Title_b_a, Link_1b)>>}

\* what the provider answers to the call of a run: it is up, and the two
\* articles are of different topics (its failures are explored on the filter alone)
RunEmbeddings(raw, candidates) ==
    [ok |-> TRUE,
     vectors |-> [k \in 1..Len(candidates) |->
                     IF raw[candidates[k]].title = Title_Ab THEN <<1, 0>> ELSE <<0, 1>>]]

NoveltyConfig(enabled, retention, url, title) ==
    [enabled |-> enabled, lookback_days |-> 1, memory_retention_days |-> retention,
     semantic_threshold |-> Threshold_07, max_news_per_stock |-> 1,
     exact_url_dedupe |-> url, exact_title_dedupe |-> title]

RunSettings ==
    {NoveltyConfig(TRUE, 2, TRUE, TRUE), NoveltyConfig(TRUE, 1, TRUE, FALSE),
     NoveltyConfig(TRUE, 2, FALSE, TRUE), NoveltyConfig(FALSE, 2, TRUE, TRUE)}

\* a run that has not started
IdleRun ==
    [pc |-> "idle", novelty_cfg |-> NoveltyConfig(TRUE, 2, TRUE, TRUE), memory |-> EmptyStore,
     load_day |-> 0, known |-> {}, analysis_day |-> 0, raw_articles |-> <<>>,
     new_items |-> <<>>, suppressed_known_topics |-> <<>>, candidate_articles |-> <<>>,
     pending_memory_entries |-> <<>>, delivered |-> FALSE]

\* ------------------------------------------- the tasks of one pipeline run
\* gather_news_parallel: one task for the portfolio items, one for the watchlist
Tasks == {"portfolio", "watchlist"}

\* the stock each task works on
TaskStock(t) == IF t = "portfolio" THEN "Microsoft" ELSE "Nvidia"

\* item["name"] of the watchlist item: another stock, or, under a second ticker,
\* the stock of the portfolio
WatchlistNames == {TaskStock("watchlist"), TaskStock("portfolio")}

\* _get_embedding_semaphore(max_concurrent=3)
max_concurrent == 3

RECURSIVE CountChar(_, _)
CountChar(text, c) ==
    IF text = <<>> THEN 0
    ELSE (IF Head(text) = c THEN 1 ELSE 0) + CountChar(Tail(text), c)

\* the embedding model as a function of the text
ProviderVector(text) == <<CountChar(text, "a"), CountChar(text, "b")>>

\* response.data of a request that is answered: one item per text, in input order
ProviderData(batch) == [k \in 1..Len(batch) |-> ProviderVector(batch[k])]

\* a filter that drops the oldest entry of the store it was handed
StoreAfterFilterDropping(mem) == [mem EXCEPT !.entries = IF @ = <<>> THEN @ ELSE Tail(@)]

\* what the filter writes to the store it was handed: no statement of lines
\* 75-199 assigns to memory, to its list of entries or to a field of an entry
StoreAfterFilter(mem) == mem

\* the settings of the run whose tasks are followed
GatherConfig == Config(2, Threshold_07, TRUE, TRUE)

\* vectors.extend(...) with the order of the two lists exchanged
ExtendVectorsInFront(vectors_so_far, data) == data \o vectors_so_far

\* line 69: vectors.extend([item.embedding for item in response.data])
ExtendVectors(vectors_so_far, data) == vectors_so_far \o data

\* a task before analyze_news_for_items calls the filter
TaskInit(t, raw) ==
    [stock_name |-> TaskStock(t), raw_articles |-> raw, pc |-> "pass1",
     p1 |-> Pass1Init(raw), attrs |-> [i \in 1..Len(raw) |-> NoAttrs],
     emb_idx |-> 0, vectors |-> <<>>, embeddings |-> NoEmbeddings,
     result |-> EarlyResult(<<>>, Pass1Init(<<>>))]

\* what fetch_all_sources returned to a task: for the portfolio one or two
\* articles, for the watchlist two articles or a batch longer than one
\* embedding request
TaskFetches(t) ==
    IF t = "portfolio"
    THEN {<<Article(Title_Ab, Link_1)>>,
          <<Article(Title_Ab, Link_1), Article(Title_ab, Link_2)>>}
    ELSE {<<Article(Title_b_a, Link_1b), Article(Title_ab, Link_2)>>, BigBatch}

\* the texts of the call of _embed_texts of a task
TaskInputs(task) ==
    [k \in 1..Len(task.p1.candidates) |->
        _embedding_input(task.raw_articles[task.p1.candidates[k]])]

\* texts[idx:idx + _EMBEDDING_BATCH_SIZE] of the request the task is at
TaskBatch(task) ==
    LET texts == TaskInputs(task)
        last  == IF task.emb_idx + _EMBEDDING_BATCH_SIZE < Len(texts)
                 THEN task.emb_idx + _EMBEDDING_BATCH_SIZE ELSE Len(texts)
    IN SubSeq(texts, task.emb_idx + 1, last)

\* what the provider may put into response.data: a vector for every text, or
\* (a malformed response) for all but the last
TaskResponses(batch) ==
    {ProviderData(batch), SubSeq(ProviderData(batch), 1, Len(batch) - 1)}

\* lines 163-196 of analyze_news_for_items: the entries of the articles a task
\* passes on, at most max_news of them
TaskPending(task, max_news, today) ==
    LET candidate_articles == Truncate(task.result.new_items, max_news)
    IN [n \in 1..Len(candidate_articles) |->
           build_memory_entry(task.stock_name, task.raw_articles[candidate_articles[n]],
                              task.attrs[candidate_articles[n]]._novelty_embedding,
                              Timestamp(today))]

\* ------------------------------------- arguments of the functions called alone
\* the query parameters of the URLs: tracking parameters in both letter cases,
\* and parameters that are kept, two of them with one key
QueryPairs ==
    {<<"utm_source", "x">>, <<"UTM_SOURCE", "x">>, <<"id", "1">>, <<"id", "2">>, <<"b", "2">>}

\* the URLs handed to canonicalize_url: the empty string, and URLs of either
\* letter case with up to MaxWww leading "www." labels of the host
UrlInputs ==
    {EmptyUrl} \cup
    [scheme : {"https", "HTTPS"}, www : 0..MaxWww, host : {"a.com", "A.COM"}, path : {"/n"},
     query : SeqsUpTo(QueryPairs, MaxQuery), fragment : {"", "top"}]

\* s.swapcase() of a scheme or host of the model
SwapCaseStr(s) ==
    CASE s = "https" -> "HTTPS"
      [] s = "HTTPS" -> "https"
      [] s = "a.com" -> "A.COM"
      [] s = "A.COM" -> "a.com"
      [] OTHER -> s

\* list with x inserted behind its first i elements
InsertAt(list, i, x) == SubSeq(list, 1, i) \o <<x>> \o SubSeq(list, i + 1, Len(list))

\* list without its element i
RemoveAt(list, i) == SubSeq(list, 1, i - 1) \o SubSeq(list, i + 1, Len(list))

\* list with its elements i and i + 1 exchanged
SwapAt(list, i) ==
    [n \in 1..Len(list) |-> IF n = i THEN list[i + 1] ELSE IF n = i + 1 THEN list[i] ELSE list[n]]

\* the URLs that differ from url in a tracking parameter only
TrackingEdits(url) ==
    LET tracking == {kv \in QueryPairs : LowerStr(kv[1]) \in TRACKING_PARAMS}
    IN {[url EXCEPT !.query = InsertAt(@, i, kv)] : i \in 0..Len(url.query), kv \in tracking}
       \cup {[url EXCEPT !.query = RemoveAt(@, i)] :
                i \in {i \in 1..Len(url.query) : url.query[i] \in tracking}}

\* the URLs that differ from url in the order of two parameters of distinct keys
OrderEdits(url) ==
    {[url EXCEPT !.query = SwapAt(@, i)] :
        i \in {i \in 1..(Len(url.query) - 1) : url.query[i][1] # url.query[i + 1][1]}}

\* the URLs that differ from url in the letter case of the scheme or of the host
CaseEdits(url) ==
    {[url EXCEPT !.scheme = SwapCaseStr(@)], [url EXCEPT !.host = SwapCaseStr(@)]}

\* the URLs that differ from url in one leading "www." of the host
WwwEdits(url) == {[url EXCEPT !.www = w] : w \in {url.www - 1, url.www + 1} \cap Nat}

\* the URLs that differ from url in the fragment
FragmentEdits(url) == {[url EXCEPT !.fragment = f] : f \in {"", "top", "end"} \ {url.fragment}}

\* the second URL of a call pair: for the empty URL itself, for any other one a
\* URL that differs from it in one of these respects
UrlEdits(url) ==
    IF url = EmptyUrl THEN {EmptyUrl}
    ELSE TrackingEdits(url) \cup OrderEdits(url) \cup CaseEdits(url) \cup WwwEdits(url)
            \cup FragmentEdits(url)

\* the characters of the titles: letters of both cases, punctuation, whitespace
TitleChars == {"A", "a", "b", "!", " ", "\n"}

\* the titles handed to normalize_text and build_title_fingerprint
TitleInputs == SeqsUpTo(TitleChars, MaxTitle)

\* ch.swapcase()
SwapCaseChar(c) ==
    CASE c = "A" -> "a"
      [] c = "a" -> "A"
      [] c = "b" -> "B"
      [] c = "B" -> "b"
      [] OTHER -> c

\* the titles that differ from title in the letter case of one character
TitleCaseEdits(title) ==
    {[title EXCEPT ![i] = SwapCaseChar(@)] : i \in {i \in 1..Len(title) : IsAlnum(title[i])}}

\* the titles that differ from title in one character that is neither
\* alphanumeric nor whitespace: one more, one fewer, or another one in its place
TitlePunctuationEdits(title) ==
    {InsertAt(title, i, c) : i \in 0..Len(title), c \in {"!"}}
        \cup {RemoveAt(title, i) : i \in {i \in 1..Len(title) : title[i] = "!"}}
        \cup {[title EXCEPT ![i] = "?"] : i \in {i \in 1..Len(title) : title[i] = "!"}}

\* the titles that differ from title in the amount of whitespace: one more
\* whitespace character in front, behind, or next to a whitespace character
TitleSpacingEdits(title) ==
    {InsertAt(title, i, c) :
        i \in {i \in 0..Len(title) :
                  \/ i = 0
                  \/ i = Len(title)
                  \/ IsSpace(title[i])
                  \/ IsSpace(title[i + 1])},
        c \in SpaceChars}

\* the second title of a call pair
TitleEdits(title) ==
    TitleCaseEdits(title) \cup TitlePunctuationEdits(title) \cup TitleSpacingEdits(title)

\* the vectors handed to cosine_similarity: empty ones, ones of different
\* lengths, zero vectors, unit vectors, and others
VecInputs == SeqsUpTo({-1, 0, 1, 2}, MaxDim)

\* the arguments of a sequence of calls: two URLs, two titles, or two vectors
Inputs(kind, urls, titles, vecs) == [kind |-> kind, urls |-> urls, titles |-> titles, vecs |-> vecs]

\* no function has been called
NoInputs == Inputs("none", <<EmptyUrl, EmptyUrl>>, <<<<>>, <<>>>>, <<<<>>, <<>>>>)

\* the results of the calls made so far, per function in the order of the calls
NoOutputs ==
    [canonical |-> <<>>, recanonical |-> <<>>, normalized |-> <<>>, renormalized |-> <<>>,
     fingerprints |-> <<>>, similarities |-> <<>>]

\* ------------------------------------------------ the settings repository
\* the threads that call add_stock and remove_stock
Threads == {"commands", "callbacks"}

\* ticker.upper() of the tickers of the model
TickerUpper(ticker) ==
    CASE ticker = "msft" -> "MSFT"
      [] ticker = " msft " -> " MSFT "
      [] ticker = "nvda" -> "NVDA"
      [] OTHER -> ticker

\* text.strip() of the tickers and names of the model
Strip(text) ==
    CASE text = " MSFT " -> "MSFT"
      [] text = " msft " -> "msft"
      [] text = " " -> ""
      [] OTHER -> text

\* {"ticker": ticker, "name": name}
StockItem(ticker, name) == [ticker |-> ticker, name |-> name]

RECURSIVE _ticker_in_list(_, _)
_ticker_in_list(items, ticker) ==
    IF items = <<>> THEN FALSE
    ELSE IF TickerUpper(Head(items).ticker) = TickerUpper(ticker) THEN TRUE
    ELSE _ticker_in_list(Tail(items), ticker)

_find_duplicate_list(settings_of_call, ticker) ==
    IF _ticker_in_list(settings_of_call.portfolio, ticker) THEN "portfolio"
    ELSE IF _ticker_in_list(settings_of_call.watchlist, ticker) THEN "watchlist"
    ELSE ""

RECURSIVE RemoveFirst(_, _)
\* lines 115-121: the list without its first item of this ticker
RemoveFirst(items, ticker) ==
    IF items = <<>> THEN <<>>
    ELSE IF TickerUpper(Head(items).ticker) = ticker THEN Tail(items)
    ELSE <<Head(items)>> \o RemoveFirst(Tail(items), ticker)

\* the lock is taken whether or not another thread holds it
LockFreeAlways(lock) == TRUE

\* with _SETTINGS_WRITE_LOCK: the lock can be taken when no thread holds it
LockFree(lock) == lock = ""

\* the arguments of the calls: tickers in either letter case and with blanks
\* around them, an empty ticker, and a name
ListNames == {"portfolio", "watchlist"}
TickerArgs == {"msft", " MSFT ", "NVDA", ""}
NameArgs == {"Stock"}

\* what config/settings.yaml may hold at the start: no ticker twice
SettingsInputs ==
    {[portfolio |-> <<>>, watchlist |-> <<>>],
     [portfolio |-> <<StockItem("msft", "Microsoft")>>, watchlist |-> <<StockItem("NVDA", "Nvidia")>>],
     [portfolio |-> <<>>, watchlist |-> <<StockItem("MSFT", "Microsoft")>>]}

\* a thread outside add_stock and remove_stock
IdleThread ==
    [pc |-> "idle", op |-> "none", list_name |-> "portfolio", ticker |-> "", name |-> "",
     settings |-> [portfolio |-> <<>>, watchlist |-> <<>>], raised |-> "", calls |-> 0]


\* --------------------------------------------------------------- the state
VARIABLES
    stock_name, raw_articles, memory, cfg, today,   \* the arguments and the clock
    pc,                                             \* where the invocation stands
    p1,                                             \* locals of pass 1
    attrs,                                          \* fields attached to raw_articles
    emb_idx, vectors, embeddings,                   \* _embed_texts
    provider_log,                                   \* the requests sent to the provider
    p2,                                             \* locals of pass 2
    result,                                         \* the returned NoveltyResult
    disk,                                           \* cache/news_memory.json
    clock,                                          \* the day the wall clock shows
    settings,                                       \* the novelty section of the settings
    runs,                                           \* the pipeline runs in progress
    started,                                        \* how many runs were started
    saved,                                          \* every entry a run has saved so far
    cut,                                            \* every accepted article a run has cut so far
    run_memory,                                     \* the store the tasks of one run share
    _embedding_semaphore,                           \* its free permits
    in_flight,                                      \* the provider requests not yet answered
    tasks,                                          \* the two tasks of gather_news_parallel
    store,                                          \* a store in memory, as the store functions see it
    call,                                           \* the last call of a store function
    files,                                          \* the directory cache/: which file each name is
    inodes,                                         \* the files: what each holds
    savers,                                         \* the calls of save_memory in progress
    crashed,                                        \* the process has stopped
    inputs,                                         \* the arguments of the functions called alone
    outputs,                                        \* what these calls returned
    settings_file,                                  \* config/settings.yaml
    backups,                                        \* how many files config/backups/ holds
    _SETTINGS_WRITE_LOCK,                           \* the thread that holds it, if any
    threads                                         \* the calls of add_stock and remove_stock

\* the variables of one invocation of filter_news_by_novelty
filter_vars == <<stock_name, raw_articles, memory, cfg, today, pc, p1, attrs,
                 emb_idx, vectors, embeddings, provider_log, p2, result>>

\* the variables of the pipeline runs
run_vars == <<disk, clock, settings, runs, started, saved, cut>>

\* the variables of the concurrent tasks of one run
gather_vars == <<run_memory, _embedding_semaphore, in_flight, tasks>>

\* the variables of the calls of the store functions
store_vars == <<store, call>>

\* the variables of save_memory, step by step
save_vars == <<files, inodes, savers, crashed>>

\* the variables of the functions called alone
pure_vars == <<inputs, outputs>>

\* the variables of the settings repository
repo_vars == <<settings_file, backups, _SETTINGS_WRITE_LOCK, threads>>

vars == <<filter_vars, run_vars, gather_vars, store_vars, save_vars, pure_vars, repo_vars>>

\* no function is called alone
PureIdle ==
    /\ inputs = NoInputs
    /\ outputs = NoOutputs

\* no thread changes the settings
RepoIdle ==
    /\ settings_file = [portfolio |-> <<>>, watchlist |-> <<>>]
    /\ backups = 0
    /\ _SETTINGS_WRITE_LOCK = ""
    /\ threads = [t \in Threads |-> IdleThread]

\* a call of save_memory that has not begun
IdleSaver == [pc |-> "idle", fd |-> 0, data |-> EmptyStore, saves |-> 0]

\* no call of save_memory is followed step by step
SaveIdle ==
    /\ files = [target |-> 0, tmp |-> 0]
    /\ inodes = <<>>
    /\ savers = [r \in RunIds |-> IdleSaver]
    /\ crashed = FALSE

\* before any call of a store function
NoCall ==
    [op |-> "none", raised |-> FALSE, before |-> EmptyStore, name |-> "", days |-> 0,
     added |-> <<>>, returned |-> <<>>]

\* no store function is followed
StoreIdle ==
    /\ store = EmptyStore
    /\ call = NoCall

\* no task of gather_news_parallel is running
GatherIdle ==
    /\ run_memory = EmptyStore
    /\ _embedding_semaphore = max_concurrent
    /\ in_flight = {}
    /\ tasks = [t \in Tasks |-> [TaskInit(t, <<>>) EXCEPT !.pc = "idle"]]

NoResult == EarlyResult(<<>>, Pass1Init(<<>>))

Init ==
    /\ today = MaxDay
    /\ stock_name = "Microsoft"
    /\ \/ /\ raw_articles \in Batches
          /\ memory \in Memories(MaxDay, MaxMemory)
          /\ cfg \in Configs
       \/ /\ raw_articles = BigBatch
          /\ memory \in {m \in Memories(MaxDay, 1) :
                            \A e \in 1..Len(m.entries) : m.entries[e].topic_embedding = <<1, 0>>}
          /\ cfg = Config(2, Threshold_07, TRUE, TRUE)
    /\ pc = "pass1"
    /\ p1 = Pass1Init(raw_articles)
    /\ attrs = [i \in 1..Len(raw_articles) |-> NoAttrs]
    /\ emb_idx = 0
    /\ vectors = <<>>
    /\ embeddings = NoEmbeddings
    /\ provider_log = <<>>
    /\ p2 = Pass2Init(Pass1Init(<<>>))
    /\ result = NoResult
    /\ disk = NoFile
    /\ clock = 0
    /\ settings = NoveltyConfig(TRUE, 2, TRUE, TRUE)
    /\ runs = [r \in RunIds |-> IdleRun]
    /\ started = 0
    /\ saved = {}
    /\ cut = {}
    /\ GatherIdle
    /\ StoreIdle
    /\ SaveIdle
    /\ PureIdle
    /\ RepoIdle

\* embed_inputs = [_embedding_input(a) for a in candidates]
EmbedInputs == [k \in 1..Len(p1.candidates) |-> _embedding_input(raw_articles[p1.candidates[k]])]

\* lines 86-143: pass 1, then the early return or the call of _embed_texts
DoPass1 ==
    /\ pc = "pass1"
    /\ LET st == Pass1(stock_name, raw_articles, memory, cfg, today)
       IN /\ p1' = st
          /\ attrs' = st.attrs
          /\ IF st.candidates = <<>>
             THEN pc' = "done" /\ result' = EarlyResult(raw_articles, st)
             ELSE pc' = "embed" /\ result' = result
    /\ UNCHANGED <<stock_name, raw_articles, memory, cfg, today,
                   emb_idx, vectors, embeddings, provider_log, p2>>
    /\ UNCHANGED run_vars
    /\ UNCHANGED gather_vars
    /\ UNCHANGED store_vars
    /\ UNCHANGED save_vars
    /\ UNCHANGED pure_vars
    /\ UNCHANGED repo_vars

\* an _embed_texts that keeps the vectors of the requests answered before the raise
EmbedFailureKeepsVectors(vectors_so_far) == [ok |-> TRUE, vectors |-> vectors_so_far]

\* what _embed_texts returns when a request raised, given the vectors so far
EmbedFailure(vectors_so_far) == NoEmbeddings

\* lines 61-69: one request of the batch loop answered
EmbedResponse ==
    /\ pc = "embed"
    /\ LET texts == EmbedInputs
           last  == IF emb_idx + _EMBEDDING_BATCH_SIZE < Len(texts)
                    THEN emb_idx + _EMBEDDING_BATCH_SIZE ELSE Len(texts)
           batch == SubSeq(texts, emb_idx + 1, last)
       IN \E data \in ProviderResponses(Len(batch)) :
              /\ provider_log' = Append(provider_log, [texts |-> Len(batch), outcome |-> "data",
                                                       returned |-> Len(data)])
              /\ vectors' = vectors \o data
              /\ emb_idx' = emb_idx + _EMBEDDING_BATCH_SIZE
              /\ IF emb_idx + _EMBEDDING_BATCH_SIZE >= Len(texts)
                 THEN pc' = "pass2" /\ embeddings' = [ok |-> TRUE, vectors |-> vectors \o data]
                 ELSE pc' = "embed" /\ embeddings' = embeddings
    /\ UNCHANGED <<stock_name, raw_articles, memory, cfg, today, p1, attrs, p2, result>>
    /\ UNCHANGED run_vars
    /\ UNCHANGED gather_vars
    /\ UNCHANGED store_vars
    /\ UNCHANGED save_vars
    /\ UNCHANGED pure_vars
    /\ UNCHANGED repo_vars

\* lines 70-72: a request raised; the call returns None
EmbedRaise ==
    /\ pc = "embed"
    /\ LET texts == EmbedInputs
           last  == IF emb_idx + _EMBEDDING_BATCH_SIZE < Len(texts)
                    THEN emb_idx + _EMBEDDING_BATCH_SIZE ELSE Len(texts)
       IN provider_log' = Append(provider_log, [texts |-> last - emb_idx, outcome |-> "raise",
                                                returned |-> 0])
    /\ embeddings' = EmbedFailure(vectors)
    /\ pc' = "pass2"
    /\ UNCHANGED <<stock_name, raw_articles, memory, cfg, today, p1, attrs,
                   emb_idx, vectors, p2, result>>
    /\ UNCHANGED run_vars
    /\ UNCHANGED gather_vars
    /\ UNCHANGED store_vars
    /\ UNCHANGED save_vars
    /\ UNCHANGED pure_vars
    /\ UNCHANGED repo_vars

\* lines 145-199: pass 2 and the return, or the IndexError of embeddings[idx]
DoPass2 ==
    /\ pc = "pass2"
    /\ LET st == Pass2(stock_name, raw_articles, memory, cfg, today, p1, embeddings)
       IN /\ p2' = st
          /\ attrs' = st.attrs
          /\ IF st.raised
             THEN pc' = "raised" /\ result' = result
             ELSE pc' = "done" /\ result' = FinalResult(raw_articles, p1, st, embeddings)
    /\ UNCHANGED <<stock_name, raw_articles, memory, cfg, today, p1,
                   emb_idx, vectors, embeddings, provider_log>>
    /\ UNCHANGED run_vars
    /\ UNCHANGED gather_vars
    /\ UNCHANGED store_vars
    /\ UNCHANGED save_vars
    /\ UNCHANGED pure_vars
    /\ UNCHANGED repo_vars

Next == DoPass1 \/ EmbedResponse \/ EmbedRaise \/ DoPass2

Spec == Init /\ [][Next]_vars

\* ------------------------------------------------ the pipeline, run by run
\* no invocation of the filter on its own: the runs call it as a whole
InitRuns ==
    /\ today = MaxDay
    /\ stock_name = RunStock
    /\ raw_articles = <<>>
    /\ memory = EmptyStore
    /\ cfg = Config(2, Threshold_07, TRUE, TRUE)
    /\ pc = "idle"
    /\ p1 = Pass1Init(<<>>)
    /\ attrs = <<>>
    /\ emb_idx = 0
    /\ vectors = <<>>
    /\ embeddings = NoEmbeddings
    /\ provider_log = <<>>
    /\ p2 = Pass2Init(Pass1Init(<<>>))
    /\ result = NoResult
    /\ disk = NoFile
    /\ clock = 0
    /\ settings \in RunSettings
    /\ runs = [r \in RunIds |-> IdleRun]
    /\ started = 0
    /\ saved = {}
    /\ cut = {}
    /\ GatherIdle
    /\ StoreIdle
    /\ SaveIdle
    /\ PureIdle
    /\ RepoIdle

\* prepare_briefing_payload, lines 309-313: the settings and the pruned store
RunStart(r) ==
    /\ runs[r].pc = "idle"
    /\ started < MaxRuns
    /\ started' = started + 1
    /\ runs' = [runs EXCEPT ![r] =
                    [IdleRun EXCEPT
                        !.pc = "loaded",
                        !.novelty_cfg = settings,
                        !.memory = prune_memory(load_memory(disk),
                                                settings.memory_retention_days, clock),
                        !.load_day = clock,
                        !.known = saved]]
    /\ UNCHANGED <<disk, clock, settings, saved, cut>>
    /\ UNCHANGED filter_vars
    /\ UNCHANGED gather_vars
    /\ UNCHANGED store_vars
    /\ UNCHANGED save_vars
    /\ UNCHANGED pure_vars
    /\ UNCHANGED repo_vars

\* analyze_news_for_items for the stock: fetch, filter, truncate, and one pending
\* memory entry per article that goes into the briefing
RunAnalyze(r) ==
    /\ runs[r].pc = "loaded"
    /\ \E raw \in Fetches :
          LET novelty_cfg == runs[r].novelty_cfg
              st1 == Pass1(RunStock, raw, runs[r].memory, novelty_cfg, clock)
              answer == RunEmbeddings(raw, st1.candidates)
          IN    LET novelty == filter_news_by_novelty(RunStock, raw, runs[r].memory,
                                                      novelty_cfg, clock, answer)
                    filtered == raw # <<>> /\ novelty_cfg.enabled
                    candidate_articles ==
                        Truncate(IF filtered THEN novelty.result.new_items
                                 ELSE [i \in 1..Len(raw) |-> i],
                                 novelty_cfg.max_news_per_stock)
                    topic_embedding(i) ==
                        IF filtered THEN novelty.attrs[i]._novelty_embedding ELSE <<>>
                IN /\ ~novelty.raised
                   /\ runs' = [runs EXCEPT ![r] =
                          [@ EXCEPT
                              !.pc = "analysed",
                              !.analysis_day = clock,
                              !.raw_articles = raw,
                              !.new_items = IF filtered THEN novelty.result.new_items ELSE <<>>,
                              !.suppressed_known_topics =
                                  IF filtered THEN novelty.result.suppressed_known_topics
                                  ELSE <<>>,
                              !.candidate_articles = candidate_articles,
                              !.pending_memory_entries =
                                  [k \in 1..Len(candidate_articles) |->
                                      build_memory_entry(RunStock, raw[candidate_articles[k]],
                                                         topic_embedding(candidate_articles[k]),
                                                         Timestamp(clock))]]]
                   /\ cut' = cut \cup CutArticles(raw, novelty.result.new_items,
                                                  novelty_cfg.max_news_per_stock, filtered)
    /\ UNCHANGED <<disk, clock, settings, started, saved>>
    /\ UNCHANGED filter_vars
    /\ UNCHANGED gather_vars
    /\ UNCHANGED store_vars
    /\ UNCHANGED save_vars
    /\ UNCHANGED pure_vars
    /\ UNCHANGED repo_vars

\* run_briefing_test, line 403: the blocks go to the chat, or Telegram fails and
\* send_telegram_message logs the error and returns
RunSend(r) ==
    /\ runs[r].pc = "analysed"
    /\ \E ok \in BOOLEAN :
          runs' = [runs EXCEPT ![r].pc = "sent", ![r].delivered = ok]
    /\ UNCHANGED <<disk, clock, settings, started, saved, cut>>
    /\ UNCHANGED filter_vars
    /\ UNCHANGED gather_vars
    /\ UNCHANGED store_vars
    /\ UNCHANGED save_vars
    /\ UNCHANGED pure_vars
    /\ UNCHANGED repo_vars

\* _persist_memory_updates: record, prune and save this run's copy of the store
RunPersist(r) ==
    /\ runs[r].pc = "sent"
    /\ IF runs[r].novelty_cfg.enabled /\ runs[r].pending_memory_entries # <<>>
       THEN /\ disk' = save_memory(
                           prune_memory(
                               record_sent_news(runs[r].memory, runs[r].pending_memory_entries),
                               runs[r].novelty_cfg.memory_retention_days, clock))
            /\ saved' = saved \cup Range(runs[r].pending_memory_entries)
       ELSE UNCHANGED <<disk, saved>>
    /\ runs' = [runs EXCEPT ![r] = IdleRun]
    /\ UNCHANGED <<clock, settings, started, cut>>
    /\ UNCHANGED filter_vars
    /\ UNCHANGED gather_vars
    /\ UNCHANGED store_vars
    /\ UNCHANGED save_vars
    /\ UNCHANGED pure_vars
    /\ UNCHANGED repo_vars

\* run_briefing_test(send_telegram=False), lines 402-410: nothing is sent, and
\* the run ends with the report and the archive
RunWithoutSend(r) ==
    /\ runs[r].pc = "analysed"
    /\ runs' = [runs EXCEPT ![r] = IdleRun]
    /\ UNCHANGED <<disk, clock, settings, started, saved, cut>>
    /\ UNCHANGED filter_vars
    /\ UNCHANGED gather_vars
    /\ UNCHANGED store_vars
    /\ UNCHANGED save_vars
    /\ UNCHANGED pure_vars
    /\ UNCHANGED repo_vars

\* a day passes
Tick ==
    /\ clock < MaxClock
    /\ clock' = clock + 1
    /\ UNCHANGED <<disk, settings, runs, started, saved, cut>>
    /\ UNCHANGED filter_vars
    /\ UNCHANGED gather_vars
    /\ UNCHANGED store_vars
    /\ UNCHANGED save_vars
    /\ UNCHANGED pure_vars
    /\ UNCHANGED repo_vars

NextRuns ==
    \/ \E r \in RunIds : RunStart(r)
    \/ \E r \in RunIds : RunAnalyze(r)
    \/ \E r \in RunIds : RunSend(r)
    \/ \E r \in RunIds : RunWithoutSend(r)
    \/ \E r \in RunIds : RunPersist(r)
    \/ Tick

SpecRuns == InitRuns /\ [][NextRuns]_vars

\* ------------------------------------- gather_news_parallel, task by task
\* neither the filter on its own nor a whole run is followed here
FilterIdle ==
    /\ today = MaxDay
    /\ stock_name = RunStock
    /\ raw_articles = <<>>
    /\ memory = EmptyStore
    /\ cfg = GatherConfig
    /\ pc = "idle"
    /\ p1 = Pass1Init(<<>>)
    /\ attrs = <<>>
    /\ emb_idx = 0
    /\ vectors = <<>>
    /\ embeddings = NoEmbeddings
    /\ provider_log = <<>>
    /\ p2 = Pass2Init(Pass1Init(<<>>))
    /\ result = NoResult

RunsIdle ==
    /\ disk = NoFile
    /\ clock = 0
    /\ settings = NoveltyConfig(TRUE, 2, TRUE, TRUE)
    /\ runs = [r \in RunIds |-> IdleRun]
    /\ started = 0
    /\ saved = {}
    /\ cut = {}

\* prepare_briefing_payload, lines 312-323: the pruned store is handed to both
\* tasks, and each of them has fetched the articles of its stock (the long batch
\* only for a watchlist stock that is not in the portfolio)
InitGather ==
    /\ FilterIdle
    /\ RunsIdle
    /\ run_memory \in {prune_memory(m, 90, MaxDay) : m \in Memories(MaxDay, MaxMemory)}
    /\ _embedding_semaphore = max_concurrent
    /\ in_flight = {}
    /\ \E pf \in TaskFetches("portfolio"), wl \in TaskFetches("watchlist"), name \in WatchlistNames :
          /\ name = TaskStock("portfolio") => Len(wl) <= MaxArticles
          /\ tasks = [t \in Tasks |->
                         IF t = "portfolio" THEN TaskInit(t, pf)
                         ELSE [TaskInit(t, wl) EXCEPT !.stock_name = name]]
    /\ StoreIdle
    /\ SaveIdle
    /\ PureIdle
    /\ RepoIdle

\* lines 86-143 in a task: pass 1, then the early return or the call of _embed_texts
GatherPass1(t) ==
    /\ tasks[t].pc = "pass1"
    /\ LET task == tasks[t]
           st == Pass1(task.stock_name, task.raw_articles, run_memory, GatherConfig, MaxDay)
       IN tasks' = [tasks EXCEPT ![t] =
                       [@ EXCEPT
                           !.p1 = st,
                           !.attrs = st.attrs,
                           !.pc = IF st.candidates = <<>> THEN "done" ELSE "embed",
                           !.result = IF st.candidates = <<>>
                                      THEN EarlyResult(task.raw_articles, st) ELSE @]]
    /\ run_memory' = StoreAfterFilter(run_memory)
    /\ UNCHANGED <<_embedding_semaphore, in_flight>>
    /\ UNCHANGED filter_vars
    /\ UNCHANGED run_vars
    /\ UNCHANGED store_vars
    /\ UNCHANGED save_vars
    /\ UNCHANGED pure_vars
    /\ UNCHANGED repo_vars

\* lines 64-68: the semaphore is free, and the request of the next batch goes out
GatherRequest(t) ==
    /\ tasks[t].pc = "embed"
    /\ _embedding_semaphore > 0
    /\ _embedding_semaphore' = _embedding_semaphore - 1
    /\ in_flight' = in_flight \cup {[task |-> t, input |-> TaskBatch(tasks[t])]}
    /\ tasks' = [tasks EXCEPT ![t].pc = "await"]
    /\ UNCHANGED run_memory
    /\ UNCHANGED filter_vars
    /\ UNCHANGED run_vars
    /\ UNCHANGED store_vars
    /\ UNCHANGED save_vars
    /\ UNCHANGED pure_vars
    /\ UNCHANGED repo_vars

\* lines 65-69: the request is answered, the semaphore released, the vectors kept
GatherResponse(t) ==
    /\ tasks[t].pc = "await"
    /\ \E request \in in_flight :
          /\ request.task = t
          /\ in_flight' = in_flight \ {request}
          /\ \E data \in TaskResponses(request.input) :
                LET task == tasks[t]
                    all  == ExtendVectors(task.vectors, data)
                    over == task.emb_idx + _EMBEDDING_BATCH_SIZE >= Len(TaskInputs(task))
                IN tasks' = [tasks EXCEPT ![t] =
                                [@ EXCEPT
                                    !.vectors = all,
                                    !.emb_idx = @ + _EMBEDDING_BATCH_SIZE,
                                    !.pc = IF over THEN "pass2" ELSE "embed",
                                    !.embeddings = IF over THEN [ok |-> TRUE, vectors |-> all]
                                                   ELSE @]]
    /\ _embedding_semaphore' = _embedding_semaphore + 1
    /\ UNCHANGED run_memory
    /\ UNCHANGED filter_vars
    /\ UNCHANGED run_vars
    /\ UNCHANGED store_vars
    /\ UNCHANGED save_vars
    /\ UNCHANGED pure_vars
    /\ UNCHANGED repo_vars

\* lines 70-72: the request raised; the semaphore is released, the call returns None
GatherRaise(t) ==
    /\ tasks[t].pc = "await"
    /\ \E request \in in_flight :
          /\ request.task = t
          /\ in_flight' = in_flight \ {request}
    /\ _embedding_semaphore' = _embedding_semaphore + 1
    /\ tasks' = [tasks EXCEPT ![t] =
                    [@ EXCEPT !.pc = "pass2", !.embeddings = EmbedFailure(@.vectors)]]
    /\ UNCHANGED run_memory
    /\ UNCHANGED filter_vars
    /\ UNCHANGED run_vars
    /\ UNCHANGED store_vars
    /\ UNCHANGED save_vars
    /\ UNCHANGED pure_vars
    /\ UNCHANGED repo_vars

\* lines 145-199 in a task: pass 2 and the return, or the IndexError of embeddings[idx]
GatherPass2(t) ==
    /\ tasks[t].pc = "pass2"
    /\ LET task == tasks[t]
           st == Pass2(task.stock_name, task.raw_articles, run_memory, GatherConfig, MaxDay,
                       task.p1, task.embeddings)
       IN tasks' = [tasks EXCEPT ![t] =
                       [@ EXCEPT
                           !.attrs = st.attrs,
                           !.pc = IF st.raised THEN "raised" ELSE "done",
                           !.result = IF st.raised THEN @
                                      ELSE FinalResult(task.raw_articles, task.p1, st,
                                                       task.embeddings)]]
    /\ run_memory' = StoreAfterFilter(run_memory)
    /\ UNCHANGED <<_embedding_semaphore, in_flight>>
    /\ UNCHANGED filter_vars
    /\ UNCHANGED run_vars
    /\ UNCHANGED store_vars
    /\ UNCHANGED save_vars
    /\ UNCHANGED pure_vars
    /\ UNCHANGED repo_vars

\* _persist_memory_updates, lines 296-305, once both tasks have returned: the
\* caller records the entries of both and prunes
GatherPersist ==
    /\ \A t \in Tasks : tasks[t].pc = "done"
    /\ LET pending_memory_entries ==
               TaskPending(tasks["portfolio"], 1, MaxDay) \o TaskPending(tasks["watchlist"], 1, MaxDay)
       IN run_memory' = IF pending_memory_entries = <<>> THEN run_memory
                        ELSE prune_memory(record_sent_news(run_memory, pending_memory_entries),
                                          90, MaxDay)
    /\ tasks' = [t \in Tasks |-> [tasks[t] EXCEPT !.pc = "persisted"]]
    /\ UNCHANGED <<_embedding_semaphore, in_flight>>
    /\ UNCHANGED filter_vars
    /\ UNCHANGED run_vars
    /\ UNCHANGED store_vars
    /\ UNCHANGED save_vars
    /\ UNCHANGED pure_vars
    /\ UNCHANGED repo_vars

NextGather ==
    \/ \E t \in Tasks : GatherPass1(t)
    \/ \E t \in Tasks : GatherRequest(t)
    \/ \E t \in Tasks : GatherResponse(t)
    \/ \E t \in Tasks : GatherRaise(t)
    \/ \E t \in Tasks : GatherPass2(t)
    \/ GatherPersist

SpecGather == InitGather /\ [][NextGather]_vars

\* ------------------------------------------- the store functions, call by call
\* what cache/news_memory.json may hold when load_memory reads it: nothing, what
\* save_memory wrote, an object without its keys or with entries that is no
\* list, a JSON value that is no object, text that is no JSON, bytes that
\* cannot be read
FileInputs ==
    LET written == [version |-> 1, entries |-> <<MemoryEntries(MaxDay)[1]>>]
        text    == [version |-> 1, entries |-> <<[text |-> "x"]>>]
    IN {NoFile, save_memory(EmptyStore), save_memory(written),
        StoreFile("object", FALSE, "list", written),
        StoreFile("object", TRUE, "absent", EmptyStore),
        StoreFile("object", TRUE, "other", text),
        StoreFile("not_object", FALSE, "absent", text),
        StoreFile("invalid", FALSE, "absent", text),
        StoreFile("unreadable", FALSE, "absent", written)}

\* the store functions alone: no filter, no run, no task is followed
InitStore ==
    /\ FilterIdle
    /\ clock = 0
    /\ settings = NoveltyConfig(TRUE, 2, TRUE, TRUE)
    /\ runs = [r \in RunIds |-> IdleRun]
    /\ started = 0
    /\ saved = {}
    /\ cut = {}
    /\ GatherIdle
    /\ disk \in FileInputs
    /\ store \in StoreInputs
    /\ call = NoCall
    /\ SaveIdle
    /\ PureIdle
    /\ RepoIdle

\* load_memory(), lines 75-90
LoadMemory ==
    /\ store' = load_memory(disk)
    /\ call' = [NoCall EXCEPT !.op = "load_memory", !.before = store]
    /\ UNCHANGED <<filter_vars, run_vars, gather_vars, save_vars, pure_vars, repo_vars>>

\* prune_memory(store, retention_days), lines 115-132: the TypeError of the
\* comparison leaves the loop before memory["entries"] is assigned
PruneMemory ==
    \E retention_days \in DayInputs :
        LET raises == retention_days > 0
                        /\ \E i \in 1..Len(store.entries) : CompareRaises(store.entries[i])
        IN /\ store' = IF raises THEN store ELSE prune_memory(store, retention_days, today)
           /\ call' = [NoCall EXCEPT !.op = "prune_memory", !.before = store,
                                     !.days = retention_days, !.raised = raises]
           /\ UNCHANGED <<filter_vars, run_vars, gather_vars, save_vars, pure_vars, repo_vars>>

\* entries_for_stock(store, stock_name, lookback_days), lines 135-149
EntriesForStock ==
    \E name \in NameInputs, lookback_days \in DayInputs :
        LET raises == lookback_days > 0
                        /\ \E i \in 1..Len(store.entries) :
                              OfStock(store.entries[i], name) /\ CompareRaises(store.entries[i])
        IN /\ call' = [NoCall EXCEPT
                          !.op = "entries_for_stock", !.before = store, !.name = name,
                          !.days = lookback_days, !.raised = raises,
                          !.returned = IF raises THEN <<>>
                                       ELSE entries_for_stock(store, name, lookback_days, today)]
           /\ UNCHANGED store
           /\ UNCHANGED <<filter_vars, run_vars, gather_vars, save_vars, pure_vars, repo_vars>>

\* record_sent_news(store, entries), lines 225-228
RecordSentNews ==
    \E entries \in SeqsUpTo(StoreEntries, 1) \cup {<<store.entries[i]>> : i \in 1..Len(store.entries)} :
        /\ Len(store.entries) + Len(entries) <= MaxStoreLen
        /\ store' = record_sent_news(store, entries)
        /\ call' = [NoCall EXCEPT !.op = "record_sent_news", !.before = store, !.added = entries]
        /\ UNCHANGED <<filter_vars, run_vars, gather_vars, save_vars, pure_vars, repo_vars>>

NextStore == LoadMemory \/ PruneMemory \/ EntriesForStock \/ RecordSentNews

SpecStore == InitStore /\ [][NextStore]_vars

\* ------------------------------------------------ save_memory, step by step
\* the stores the runs save: what _persist_memory_updates hands to save_memory,
\* here the store with the entry of one stock and the store with that of another
SaveInputs == {[version |-> 1, entries |-> <<MemoryEntries(MaxDay)[i]>>] : i \in {1, 3}}

\* what a file holds: nothing yet, the first part of a serialized store, the
\* whole of it, or the bytes of two stores written over each other
FileContent(state, data) == [state |-> state, data |-> data]

\* write_text of `data` by a writer whose open() found the file in `content`:
\* onto bytes of another store the result is a mix of both
Written(content, data) ==
    IF content.state = "empty" \/ content.data = data THEN FileContent("complete", data)
    ELSE FileContent("mixed", data)

\* cache/news_memory.json is absent or holds what an earlier save wrote, and
\* cache/news_memory.tmp is absent
InitSave ==
    /\ FilterIdle
    /\ RunsIdle
    /\ GatherIdle
    /\ StoreIdle
    /\ \/ /\ files = [target |-> 0, tmp |-> 0]
          /\ inodes = <<>>
       \/ /\ files = [target |-> 1, tmp |-> 0]
          /\ \E previous \in SaveInputs \cup {EmptyStore} :
                inodes = <<FileContent("complete", previous)>>
    /\ savers = [r \in RunIds |-> IdleSaver]
    /\ crashed = FALSE
    /\ PureIdle
    /\ RepoIdle

\* line 97: json.dumps(memory) of the store the run persists
SaveSerialize(r) ==
    /\ ~crashed
    /\ savers[r].pc = "idle"
    /\ savers[r].saves < MaxSaves
    /\ \E memory_to_save \in SaveInputs :
          savers' = [savers EXCEPT ![r] = [@ EXCEPT !.pc = "open", !.data = memory_to_save,
                                                    !.saves = @ + 1]]
    /\ UNCHANGED <<files, inodes, crashed>>
    /\ UNCHANGED <<filter_vars, run_vars, gather_vars, store_vars, pure_vars, repo_vars>>

\* line 96, write_text: open(tmp_path, "w") creates the file or truncates it
SaveOpen(r) ==
    /\ ~crashed
    /\ savers[r].pc = "open"
    /\ IF files.tmp = 0
       THEN /\ inodes' = Append(inodes, FileContent("empty", EmptyStore))
            /\ files' = [files EXCEPT !.tmp = Len(inodes) + 1]
            /\ savers' = [savers EXCEPT ![r].pc = "write", ![r].fd = Len(inodes) + 1]
       ELSE /\ inodes' = [inodes EXCEPT ![files.tmp] = FileContent("empty", EmptyStore)]
            /\ files' = files
            /\ savers' = [savers EXCEPT ![r].pc = "write", ![r].fd = files.tmp]
    /\ UNCHANGED crashed
    /\ UNCHANGED <<filter_vars, run_vars, gather_vars, store_vars, pure_vars, repo_vars>>

\* write_text: the first bytes reach the open file
SaveWritePart(r) ==
    /\ ~crashed
    /\ savers[r].pc = "write"
    /\ inodes[savers[r].fd].state = "empty"
    /\ inodes' = [inodes EXCEPT ![savers[r].fd] = FileContent("partial", savers[r].data)]
    /\ UNCHANGED <<files, savers, crashed>>
    /\ UNCHANGED <<filter_vars, run_vars, gather_vars, store_vars, pure_vars, repo_vars>>

\* write_text: the last bytes are written and the file is closed
SaveWriteAll(r) ==
    /\ ~crashed
    /\ savers[r].pc = "write"
    /\ inodes' = [inodes EXCEPT ![savers[r].fd] = Written(@, savers[r].data)]
    /\ savers' = [savers EXCEPT ![r].pc = "replace"]
    /\ UNCHANGED <<files, crashed>>
    /\ UNCHANGED <<filter_vars, run_vars, gather_vars, store_vars, pure_vars, repo_vars>>

\* line 101: tmp_path.replace(path), or its FileNotFoundError, caught in line 102
SaveReplace(r) ==
    /\ ~crashed
    /\ savers[r].pc = "replace"
    /\ files' = IF files.tmp = 0 THEN files ELSE [target |-> files.tmp, tmp |-> 0]
    /\ savers' = [savers EXCEPT ![r] = [IdleSaver EXCEPT !.saves = savers[r].saves]]
    /\ UNCHANGED <<inodes, crashed>>
    /\ UNCHANGED <<filter_vars, run_vars, gather_vars, store_vars, pure_vars, repo_vars>>

\* the process stops, at whatever step its saves are
Crash ==
    /\ ~crashed
    /\ crashed' = TRUE
    /\ UNCHANGED <<files, inodes, savers>>
    /\ UNCHANGED <<filter_vars, run_vars, gather_vars, store_vars, pure_vars, repo_vars>>

NextSave ==
    \/ \E r \in RunIds : SaveSerialize(r)
    \/ \E r \in RunIds : SaveOpen(r)
    \/ \E r \in RunIds : SaveWritePart(r)
    \/ \E r \in RunIds : SaveWriteAll(r)
    \/ \E r \in RunIds : SaveReplace(r)
    \/ Crash

SpecSave == InitSave /\ [][NextSave]_vars

\* --------------------------------------------- the functions called alone
\* the calls are followed with nothing else going on
InitPure ==
    /\ FilterIdle
    /\ RunsIdle
    /\ GatherIdle
    /\ StoreIdle
    /\ SaveIdle
    /\ RepoIdle
    /\ \/ \E url \in UrlInputs : \E other \in UrlEdits(url) :
             inputs = [NoInputs EXCEPT !.kind = "urls", !.urls = <<url, other>>]
       \/ \E title \in TitleInputs : \E other \in TitleEdits(title) :
             inputs = [NoInputs EXCEPT !.kind = "titles", !.titles = <<title, other>>]
       \/ \E vec_a \in VecInputs : \E vec_b \in VecInputs :
             inputs = [NoInputs EXCEPT !.kind = "vecs", !.vecs = <<vec_a, vec_b>>]
    /\ outputs = NoOutputs

\* canonicalize_url(url), lines 37-56, of the first URL and then of the second
CanonicalizeUrl ==
    /\ inputs.kind = "urls"
    /\ Len(outputs.canonical) < 2
    /\ outputs' = [outputs EXCEPT
                      !.canonical = Append(@, canonicalize_url(inputs.urls[Len(@) + 1]))]
    /\ UNCHANGED inputs
    /\ UNCHANGED <<filter_vars, run_vars, gather_vars, store_vars, save_vars, repo_vars>>

\* canonicalize_url of what canonicalize_url returned for the first URL
CanonicalizeAgain ==
    /\ inputs.kind = "urls"
    /\ Len(outputs.canonical) >= 1
    /\ outputs.recanonical = <<>>
    /\ outputs' = [outputs EXCEPT !.recanonical = <<canonicalize_url(outputs.canonical[1])>>]
    /\ UNCHANGED inputs
    /\ UNCHANGED <<filter_vars, run_vars, gather_vars, store_vars, save_vars, repo_vars>>

\* normalize_text(text), lines 59-64, of the first title and then of the second
NormalizeText ==
    /\ inputs.kind = "titles"
    /\ Len(outputs.normalized) < 2
    /\ outputs' = [outputs EXCEPT
                      !.normalized = Append(@, normalize_text(inputs.titles[Len(@) + 1]))]
    /\ UNCHANGED inputs
    /\ UNCHANGED <<filter_vars, run_vars, gather_vars, store_vars, save_vars, repo_vars>>

\* normalize_text of what normalize_text returned for the first title
NormalizeAgain ==
    /\ inputs.kind = "titles"
    /\ Len(outputs.normalized) >= 1
    /\ outputs.renormalized = <<>>
    /\ outputs' = [outputs EXCEPT !.renormalized = <<normalize_text(outputs.normalized[1])>>]
    /\ UNCHANGED inputs
    /\ UNCHANGED <<filter_vars, run_vars, gather_vars, store_vars, save_vars, repo_vars>>

\* build_title_fingerprint(title), lines 67-68, of the first title and then of
\* the second
BuildTitleFingerprint ==
    /\ inputs.kind = "titles"
    /\ Len(outputs.fingerprints) < 2
    /\ outputs' = [outputs EXCEPT
                      !.fingerprints = Append(@, build_title_fingerprint(inputs.titles[Len(@) + 1]))]
    /\ UNCHANGED inputs
    /\ UNCHANGED <<filter_vars, run_vars, gather_vars, store_vars, save_vars, repo_vars>>

\* cosine_similarity(vec_a, vec_b), lines 167-176, and then cosine_similarity(vec_b, vec_a)
CosineSimilarity ==
    /\ inputs.kind = "vecs"
    /\ Len(outputs.similarities) < 2
    /\ outputs' = [outputs EXCEPT
                      !.similarities =
                          Append(@, IF @ = <<>>
                                    THEN cosine_similarity(inputs.vecs[1], inputs.vecs[2])
                                    ELSE cosine_similarity(inputs.vecs[2], inputs.vecs[1]))]
    /\ UNCHANGED inputs
    /\ UNCHANGED <<filter_vars, run_vars, gather_vars, store_vars, save_vars, repo_vars>>

NextPure ==
    \/ CanonicalizeUrl
    \/ CanonicalizeAgain
    \/ NormalizeText
    \/ NormalizeAgain
    \/ BuildTitleFingerprint
    \/ CosineSimilarity

SpecPure == InitPure /\ [][NextPure]_vars

\* ------------------------------------ add_stock and remove_stock, step by step
InitRepo ==
    /\ FilterIdle
    /\ RunsIdle
    /\ GatherIdle
    /\ StoreIdle
    /\ SaveIdle
    /\ PureIdle
    /\ settings_file \in SettingsInputs
    /\ backups = 0
    /\ _SETTINGS_WRITE_LOCK = ""
    /\ threads = [t \in Threads |-> IdleThread]

\* add_stock, lines 80-83: the arguments are cleaned, or ValueError is raised
AddStock(t) ==
    /\ threads[t].pc = "idle"
    /\ threads[t].calls < MaxCalls
    /\ \E list_name \in ListNames, ticker_arg \in TickerArgs, name_arg \in NameArgs :
          LET ticker == Strip(TickerUpper(ticker_arg))
              name   == Strip(name_arg)
              call_of_t == [IdleThread EXCEPT !.op = "add_stock", !.list_name = list_name,
                                              !.ticker = ticker, !.name = name,
                                              !.calls = threads[t].calls + 1]
          IN threads' = [threads EXCEPT ![t] =
                            IF ticker = "" \/ name = ""
                            THEN [call_of_t EXCEPT !.raised = "ValueError"]
                            ELSE [call_of_t EXCEPT !.pc = "lock"]]
    /\ UNCHANGED <<settings_file, backups, _SETTINGS_WRITE_LOCK>>
    /\ UNCHANGED <<filter_vars, run_vars, gather_vars, store_vars, save_vars, pure_vars>>

\* remove_stock, lines 107-109
RemoveStock(t) ==
    /\ threads[t].pc = "idle"
    /\ threads[t].calls < MaxCalls
    /\ \E list_name \in ListNames, ticker_arg \in TickerArgs :
          LET ticker == Strip(TickerUpper(ticker_arg))
              call_of_t == [IdleThread EXCEPT !.op = "remove_stock", !.list_name = list_name,
                                              !.ticker = ticker,
                                              !.calls = threads[t].calls + 1]
          IN threads' = [threads EXCEPT ![t] =
                            IF ticker = ""
                            THEN [call_of_t EXCEPT !.raised = "ValueError"]
                            ELSE [call_of_t EXCEPT !.pc = "lock"]]
    /\ UNCHANGED <<settings_file, backups, _SETTINGS_WRITE_LOCK>>
    /\ UNCHANGED <<filter_vars, run_vars, gather_vars, store_vars, save_vars, pure_vars>>

\* lines 85-87 and 111-113: the lock is taken and the file is loaded
LoadSettings(t) ==
    /\ threads[t].pc = "lock"
    /\ LockFree(_SETTINGS_WRITE_LOCK)
    /\ _SETTINGS_WRITE_LOCK' = t
    /\ threads' = [threads EXCEPT ![t].pc = "check", ![t].settings = settings_file]
    /\ UNCHANGED <<settings_file, backups>>
    /\ UNCHANGED <<filter_vars, run_vars, gather_vars, store_vars, save_vars, pure_vars>>

\* lines 89-93: ValueError for a ticker that is in a list, which leaves the
\* with block; otherwise the item is appended to the loaded list
AddStockCheck(t) ==
    /\ threads[t].pc = "check"
    /\ threads[t].op = "add_stock"
    /\ IF _find_duplicate_list(threads[t].settings, threads[t].ticker) # ""
       THEN /\ threads' = [threads EXCEPT ![t].pc = "idle", ![t].raised = "ValueError"]
            /\ _SETTINGS_WRITE_LOCK' = ""
       ELSE /\ threads' = [threads EXCEPT
                             ![t].pc = "backup",
                             ![t].settings[threads[t].list_name] =
                                 Append(@, StockItem(threads[t].ticker, threads[t].name))]
            /\ UNCHANGED _SETTINGS_WRITE_LOCK
    /\ UNCHANGED <<settings_file, backups>>
    /\ UNCHANGED <<filter_vars, run_vars, gather_vars, store_vars, save_vars, pure_vars>>

\* lines 115-126: KeyError for a ticker that is not in the list; otherwise the
\* list without its first item of this ticker
RemoveStockCheck(t) ==
    /\ threads[t].pc = "check"
    /\ threads[t].op = "remove_stock"
    /\ IF ~_ticker_in_list(threads[t].settings[threads[t].list_name], threads[t].ticker)
       THEN /\ threads' = [threads EXCEPT ![t].pc = "idle", ![t].raised = "KeyError"]
            /\ _SETTINGS_WRITE_LOCK' = ""
       ELSE /\ threads' = [threads EXCEPT
                             ![t].pc = "backup",
                             ![t].settings[threads[t].list_name] =
                                 RemoveFirst(@, threads[t].ticker)]
            /\ UNCHANGED _SETTINGS_WRITE_LOCK
    /\ UNCHANGED <<settings_file, backups>>
    /\ UNCHANGED <<filter_vars, run_vars, gather_vars, store_vars, save_vars, pure_vars>>

\* lines 95 and 128: backup_settings() copies the file into config/backups/
BackupSettings(t) ==
    /\ threads[t].pc = "backup"
    /\ backups' = backups + 1
    /\ threads' = [threads EXCEPT ![t].pc = "save"]
    /\ UNCHANGED <<settings_file, _SETTINGS_WRITE_LOCK>>
    /\ UNCHANGED <<filter_vars, run_vars, gather_vars, store_vars, save_vars, pure_vars>>

\* lines 96 and 129: save_settings_atomic(settings), and the with block is left
SaveSettings(t) ==
    /\ threads[t].pc = "save"
    /\ settings_file' = threads[t].settings
    /\ _SETTINGS_WRITE_LOCK' = ""
    /\ threads' = [threads EXCEPT ![t].pc = "idle"]
    /\ UNCHANGED backups
    /\ UNCHANGED <<filter_vars, run_vars, gather_vars, store_vars, save_vars, pure_vars>>

NextRepo ==
    \/ \E t \in Threads : AddStock(t)
    \/ \E t \in Threads : RemoveStock(t)
    \/ \E t \in Threads : LoadSettings(t)
    \/ \E t \in Threads : AddStockCheck(t)
    \/ \E t \in Threads : RemoveStockCheck(t)
    \/ \E t \in Threads : BackupSettings(t)
    \/ \E t \in Threads : SaveSettings(t)

SpecRepo == InitRepo /\ [][NextRepo]_vars

\* ------------------------------------------------ vocabulary of the claims
StockEntries == entries_for_stock(memory, stock_name, cfg.lookback_days, today)

HashOf(i) == UrlHash(raw_articles[i].link)

FingerprintOf(i) == build_title_fingerprint(raw_articles[i].title)

\* article i survived pass 1
IsCandidate(i) == \E k \in 1..Len(p1.candidates) : p1.candidates[k] = i

Pass1Over == pc \in {"embed", "pass2", "done", "raised"}

Returned == pc = "done"

IsNew(i) == \E n \in 1..Len(result.new_items) : result.new_items[n] = i

SuppressedAs(i, reason) ==
    \E n \in 1..Len(result.suppressed_known_topics) :
        /\ result.suppressed_known_topics[n].article = i
        /\ result.suppressed_known_topics[n].reason = reason

CountReason(topics, reason) ==
    Cardinality({n \in 1..Len(topics) : topics[n].reason = reason})

\* the filter returned and every candidate got a vector of the provider
Embedded == Returned /\ Truthy(embeddings)

\* the computed embedding of the k-th candidate
Vec(k) == embeddings.vectors[k]

AtLeastThreshold(score) == ScoreGe(score, cfg.semantic_threshold)

\* C1: after pass 1 an article is suppressed as exact_duplicate exactly when its
\* non-empty URL hash (URL dedupe on) or its title fingerprint (title dedupe on)
\* equals that of an earlier survivor of the batch or of a memory entry of the
\* stock's window; every other article is a candidate; with both flags off
\* nothing is rejected.
C1_IsExactDuplicate(i) ==
    \/ /\ cfg.exact_url_dedupe
       /\ HashOf(i) # NoHash
       /\ \/ \E j \in 1..(i - 1) : IsCandidate(j) /\ HashOf(j) = HashOf(i)
          \/ \E e \in 1..Len(StockEntries) : StockEntries[e].canonical_url_hash = HashOf(i)
    \/ /\ cfg.exact_title_dedupe
       /\ \/ \E j \in 1..(i - 1) : IsCandidate(j) /\ FingerprintOf(j) = FingerprintOf(i)
          \/ \E e \in 1..Len(StockEntries) : StockEntries[e].title_fingerprint = FingerprintOf(i)

C1_Pass1Classification ==
    Pass1Over =>
        /\ \A i \in 1..Len(raw_articles) :
              /\ C1_IsExactDuplicate(i) <=>
                    \E n \in 1..Len(p1.suppressed_known_topics) :
                        /\ p1.suppressed_known_topics[n].article = i
                        /\ p1.suppressed_known_topics[n].reason = "exact_duplicate"
              /\ ~C1_IsExactDuplicate(i) <=> IsCandidate(i)
        /\ p1.exact_dupes = Len(p1.suppressed_known_topics)
        /\ (~cfg.exact_url_dedupe /\ ~cfg.exact_title_dedupe) => p1.exact_dupes = 0

\* a batch whose second article repeats the URL of the first up to tracking
\* parameters, with URL dedupe on and nothing in memory
C1_Witness ==
    /\ Pass1Over
    /\ cfg.exact_url_dedupe /\ ~cfg.exact_title_dedupe
    /\ Len(raw_articles) = 2
    /\ IsCandidate(1) /\ ~IsCandidate(2)
    /\ HashOf(1) = HashOf(2) /\ raw_articles[1].link # raw_articles[2].link
    /\ Len(StockEntries) = 0

\* the highest similarity of candidate k to the topic embeddings this stock's
\* memory window carries reaches the threshold
C3_MemoryScoreReaches(k) ==
    \E e \in 1..Len(StockEntries) :
        /\ StockEntries[e].topic_embedding # <<>>
        /\ AtLeastThreshold(cosine_similarity(Vec(k), StockEntries[e].topic_embedding))

\* C3: a pass-1 survivor with an embedding whose best similarity to the memory
\* embeddings of the stock is at least semantic_threshold is not in new_items, is
\* recorded as semantic_duplicate, and counts once in stats.semantic_dupes.
C3_MemoryDuplicateSuppressed ==
    Embedded =>
        /\ \A k \in 1..Len(p1.candidates) :
              (Vec(k) # <<>> /\ C3_MemoryScoreReaches(k)) =>
                  /\ ~IsNew(p1.candidates[k])
                  /\ SuppressedAs(p1.candidates[k], "semantic_duplicate")
        /\ result.stats.semantic_dupes =
              CountReason(result.suppressed_known_topics, "semantic_duplicate")

\* C4: a candidate whose similarity to a candidate accepted as new earlier in
\* the batch is at least semantic_threshold is a semantic duplicate, memory or not.
C4_InBatchDuplicateOfNew ==
    Embedded =>
        \A k \in 1..Len(p1.candidates) : \A j \in 1..(k - 1) :
            (/\ IsNew(p1.candidates[j])
             /\ Vec(j) # <<>> /\ Vec(k) # <<>>
             /\ AtLeastThreshold(cosine_similarity(Vec(k), Vec(j)))) =>
                /\ ~IsNew(p1.candidates[k])
                /\ SuppressedAs(p1.candidates[k], "semantic_duplicate")

\* two candidates of one vector, nothing of the stock in memory: the second is
\* suppressed against the first
C4_Witness ==
    /\ Embedded
    /\ Len(StockEntries) = 0
    /\ Len(p1.candidates) = 2
    /\ Vec(1) = Vec(2)
    /\ IsNew(p1.candidates[1]) /\ SuppressedAs(p1.candidates[2], "semantic_duplicate")

\* C5: a candidate whose similarity to an earlier candidate rejected as semantic
\* duplicate is at least semantic_threshold is itself a semantic duplicate,
\* whether or not anything of the batch was accepted as new before it.
C5_InBatchDuplicateOfRejected ==
    Embedded =>
        \A k \in 1..Len(p1.candidates) : \A j \in 1..(k - 1) :
            (/\ SuppressedAs(p1.candidates[j], "semantic_duplicate")
             /\ Vec(j) # <<>> /\ Vec(k) # <<>>
             /\ AtLeastThreshold(cosine_similarity(Vec(k), Vec(j)))) =>
                /\ ~IsNew(p1.candidates[k])
                /\ SuppressedAs(p1.candidates[k], "semantic_duplicate")

\* some request of the call raised
SomeRequestRaised == \E n \in 1..Len(provider_log) : provider_log[n].outcome = "raise"

\* some response carried fewer vectors than the request carried texts
SomeResponseShort ==
    \E n \in 1..Len(provider_log) :
        provider_log[n].outcome = "data" /\ provider_log[n].returned < provider_log[n].texts

\* the filter returned all pass-1 survivors as new, without any vector
FailedOpen ==
    /\ result.new_items = p1.candidates
    /\ result.stats.semantic_dupes = 0
    /\ result.stats.new_count = Len(p1.candidates)
    /\ result.candidate_embeddings = <<>>
    /\ \A k \in 1..Len(p1.candidates) : attrs[p1.candidates[k]]._novelty_embedding = <<>>

\* C6: once a request raised, the call has no vectors (those of earlier
\* requests are dropped), no further request is sent, and the filter does not raise
\* but returns every pass-1 survivor as new with semantic_dupes = 0.
C6_FailOpenOnRaise ==
    SomeRequestRaised =>
        /\ provider_log[Len(provider_log)].outcome = "raise"
        /\ \A n \in 1..(Len(provider_log) - 1) : provider_log[n].outcome = "data"
        /\ pc \in {"pass2", "done"}
        /\ ~Truthy(embeddings)
        /\ Returned => FailedOpen

\* the second request of a long batch raised after the first was answered
C6_Witness ==
    /\ Returned
    /\ Len(provider_log) = 2
    /\ provider_log[1].outcome = "data" /\ provider_log[1].returned = _EMBEDDING_BATCH_SIZE
    /\ provider_log[2].outcome = "raise"
    /\ Len(result.new_items) > _EMBEDDING_BATCH_SIZE

\* C7: a response with fewer vectors than texts is a total failure of the call:
\* the filter raises nothing and returns every pass-1 survivor as new.
C7_ShortResponseFailsOpen ==
    (SomeResponseShort /\ pc \in {"done", "raised"}) => (Returned /\ FailedOpen)

\* C8: when no article survives pass 1 the filter has returned at once, with no
\* new item, new_count = 0 and no embeddings, and no request was sent.
C8_EarlyReturn ==
    (Pass1Over /\ p1.candidates = <<>>) =>
        /\ Returned
        /\ result.new_items = <<>>
        /\ result.stats.new_count = 0
        /\ result.candidate_embeddings = <<>>
        /\ result.stats.exact_dupes = Len(raw_articles)
        /\ provider_log = <<>>

\* a batch of two articles, both exact duplicates of memory
C8_Witness ==
    /\ Returned
    /\ Len(raw_articles) = 2
    /\ p1.candidates = <<>>
    /\ result.stats.exact_dupes = 2

\* candidate k scores below the threshold against every memory embedding of
\* the stock and every earlier candidate of the batch
C9_BelowEverywhere(k) ==
    /\ \A e \in 1..Len(StockEntries) :
          ~AtLeastThreshold(cosine_similarity(Vec(k), StockEntries[e].topic_embedding))
    /\ \A j \in 1..(k - 1) : ~AtLeastThreshold(cosine_similarity(Vec(k), Vec(j)))

C10_OrderPreserved ==
    Returned =>
        /\ \A n \in 1..Len(result.new_items) : result.new_items[n] \in 1..Len(raw_articles)
        /\ \A n \in 1..(Len(result.new_items) - 1) :
              result.new_items[n] < result.new_items[n + 1]
        /\ (result.stats.exact_dupes = 0 /\ result.stats.semantic_dupes = 0) =>
              result.new_items = [i \in 1..Len(raw_articles) |-> i]

\* a batch of two articles with vectors, both returned, in input order
C10_Witness ==
    /\ Embedded
    /\ Len(raw_articles) = 2
    /\ result.new_items = <<1, 2>>

\* an entry saved before run r loaded the store, of the stock, inside the
\* retention period when r loaded and inside the lookback window when r filtered
C2_KnownToRun(r, e) ==
    /\ e \in runs[r].known
    /\ e.stock_name = RunStock
    /\ e.date_sent.day >= runs[r].load_day - runs[r].novelty_cfg.memory_retention_days
    /\ e.date_sent.day >= runs[r].analysis_day - runs[r].novelty_cfg.lookback_days

\* article i of run r repeats entry e in its canonical URL or normalized title,
\* under a flag that is on
C2_Repeats(r, i, e) ==
    LET article == runs[r].raw_articles[i]
    IN \/ /\ runs[r].novelty_cfg.exact_url_dedupe
          /\ canonicalize_url(article.link) # EmptyUrl
          /\ UrlHash(article.link) = e.canonical_url_hash
       \/ /\ runs[r].novelty_cfg.exact_title_dedupe
          /\ build_title_fingerprint(article.title) = e.title_fingerprint

\* C2: what a run delivered, recorded and saved is an exact duplicate for every
\* run that starts later, while the entry is inside the lookback window and the
\* retention period and the matching flag is on; it is not delivered again.
C2_SavedNewsNotDeliveredAgain ==
    \A r \in RunIds :
        (runs[r].pc \in {"analysed", "sent"} /\ runs[r].novelty_cfg.enabled) =>
            \A i \in 1..Len(runs[r].raw_articles) : \A e \in saved :
                (C2_KnownToRun(r, e) /\ C2_Repeats(r, i, e)) =>
                    /\ \E n \in 1..Len(runs[r].suppressed_known_topics) :
                          /\ runs[r].suppressed_known_topics[n].article = i
                          /\ runs[r].suppressed_known_topics[n].reason = "exact_duplicate"
                    /\ i \notin Range(runs[r].candidate_articles)

\* a task is inside filter_news_by_novelty
InFilter(t) == tasks[t].pc \in {"pass1", "embed", "await", "pass2"}

\* C11: while a task of the run is inside filter_news_by_novelty, no step of
\* any task changes the store the tasks share (its entries, their order, their
\* fields), however the tasks interleave at the await of the provider; the store
\* changes only in the caller's record/prune step, after both tasks returned
C11_FilterLeavesStore ==
    [][(\E t \in Tasks : InFilter(t)) => run_memory' = run_memory]_vars

\* both tasks wait for the provider at once, over a store that holds entries
C11_Witness ==
    /\ \A t \in Tasks : tasks[t].pc = "await"
    /\ run_memory.entries # <<>>

RECURSIVE IsSubseqFrom(_, _, _, _)
\* sub[i..] can be read off list[j..] from left to right
IsSubseqFrom(sub, list, i, j) ==
    IF i > Len(sub) THEN TRUE
    ELSE IF j > Len(list) THEN FALSE
    ELSE IF sub[i] = list[j] THEN IsSubseqFrom(sub, list, i + 1, j + 1)
    ELSE IsSubseqFrom(sub, list, i, j + 1)

\* the vectors the provider has for the texts of the call of a task, text by text
ExpectedVectors(t) == ProviderData(TaskInputs(tasks[t]))

\* C20: at any moment at most 3 provider requests of the run are in flight, over
\* all its tasks; each request carries at most 32 texts; and the vectors a call of
\* _embed_texts returns follow the order of the texts passed to it (vector by
\* vector when the provider answered every text)
C20_RequestsBoundedAndOrdered ==
    /\ Cardinality(in_flight) <= 3
    /\ \A request \in in_flight : Len(request.input) <= 32
    /\ \A t \in Tasks :
          tasks[t].embeddings.ok =>
              /\ IsSubseqFrom(tasks[t].embeddings.vectors, ExpectedVectors(t), 1, 1)
              /\ Len(tasks[t].embeddings.vectors) = Len(ExpectedVectors(t)) =>
                    tasks[t].embeddings.vectors = ExpectedVectors(t)

\* a call that took two requests has returned a vector for each of its texts,
\* while a request of the other task is in flight
C20_Witness ==
    /\ tasks["watchlist"].embeddings.ok
    /\ Len(tasks["watchlist"].embeddings.vectors) > 32
    /\ Len(tasks["watchlist"].embeddings.vectors) = Len(ExpectedVectors("watchlist"))
    /\ \E request \in in_flight : request.task = "portfolio"

\* the entries of run r that no run has saved before
NewEntriesOf(r) == Range(runs[r].pending_memory_entries) \ saved

\* C12: the step that ends a run whose delivery to the chat failed, or that did
\* not send, leaves the persisted store without the new entries of that run
C12_SavedOnlyAfterDelivery ==
    [][\A r \in RunIds :
          (runs[r].pc \in {"analysed", "sent"} /\ runs'[r].pc = "idle" /\ ~runs[r].delivered)
              => \A e \in NewEntriesOf(r) : e \notin Range(load_memory(disk').entries)]_vars

\* C13: once the runs that overlapped have finished, the persisted store holds
\* the entries every run has saved, as far as they are inside the retention
\* period: no save has overwritten the entries of another run
C13_OverlappingRunsKeepBoth ==
    (\A r \in RunIds : runs[r].pc = "idle") =>
        \A e \in saved :
            e.date_sent.day >= clock - settings.memory_retention_days
                => e \in Range(load_memory(disk).entries)

\* the store file holds no store: it is missing, unreadable, no JSON or no object
NoStoreInFile == ~disk.exists \/ disk.kind \in {"unreadable", "invalid", "not_object"}

\* C15: load_memory does not raise; of a file that is missing, unreadable, not
\* valid JSON or whose root is no object it returns {version: 1, entries: []}, and
\* of an object whose entries are no list it returns the object with entries []:
\* in each of these cases the caller gets a store without history
C15_LoadNeverRaises ==
    call.op = "load_memory" =>
        /\ ~call.raised
        /\ NoStoreInFile => store = [version |-> 1, entries |-> <<>>]
        /\ (disk.exists /\ disk.kind = "object" /\ disk.entries_kind = "other")
              => store.entries = <<>>

\* load_memory has read a file that cannot be read, into a process that held a
\* store with entries
C15_Witness ==
    /\ call.op = "load_memory"
    /\ disk.exists /\ disk.kind = "unreadable"
    /\ call.before.entries # <<>>
    /\ store = EmptyStore

\* date_sent is inside the last `days` days, or cannot be parsed
InsideDays(entry, days) ==
    ~entry.date_sent.valid \/ entry.date_sent.day >= today - days

\* C16: entries_for_stock returns, in store order, exactly the entries of the
\* requested stock whose date_sent is not older than now - lookback_days or
\* cannot be parsed, and with lookback_days <= 0 all entries of the stock
C16_EntriesForStock ==
    call.op = "entries_for_stock" =>
        /\ ~call.raised
        /\ call.returned =
              SelectSeq(call.before.entries,
                        LAMBDA e : e.stock_name = call.name
                                    /\ (call.days <= 0 \/ InsideDays(e, call.days)))

\* C17: prune_memory with retention_days > 0 removes exactly the entries whose
\* date_sent parses to a time older than now - retention_days, whatever their
\* stock, and keeps the others unchanged and in order; with retention_days <= 0
\* it leaves the store unchanged
C17_PruneMemory ==
    call.op = "prune_memory" =>
        /\ ~call.raised
        /\ store.version = call.before.version
        /\ store.entries =
              IF call.days <= 0 THEN call.before.entries
              ELSE SelectSeq(call.before.entries, LAMBDA e : InsideDays(e, call.days))

\* C18: after record_sent_news the entries of the store are the previous entries,
\* unchanged and in order, followed by the new entries in the given order, also
\* when a new entry equals one the store holds
C18_RecordAppendsOnly ==
    call.op = "record_sent_news" =>
        /\ ~call.raised
        /\ store.version = call.before.version
        /\ store.entries = call.before.entries \o call.added

\* an entry the store already held has been recorded again
C18_Witness ==
    /\ call.op = "record_sent_news"
    /\ call.added # <<>>
    /\ \E i \in 1..Len(call.before.entries) : call.before.entries[i] = call.added[1]
    /\ Len(store.entries) = Len(call.before.entries) + 1

\* C14: when the process stops at any step of save_memory, the store file holds
\* the complete content of before the save or the complete new content, never a
\* part of a store and never a mix of two
C14_SaveIsAtomic ==
    (crashed /\ files.target # 0) => inodes[files.target].state = "complete"

\* the similarity of candidate k to every reference the spec has pass 2 consult:
\* the topic embeddings of the stock's memory window and the embeddings of the
\* candidates before k
C19_Scores(k) ==
    {cosine_similarity(Vec(k), StockEntries[e].topic_embedding) :
        e \in {e \in 1..Len(StockEntries) : StockEntries[e].topic_embedding # <<>>}}
    \cup {cosine_similarity(Vec(k), Vec(j)) : j \in {j \in 1..(k - 1) : Vec(j) # <<>>}}

\* the best of these scores equals the threshold exactly
C19_BestEqualsThreshold(k) ==
    /\ \E s \in C19_Scores(k) : ScoreGe(s, cfg.semantic_threshold)
    /\ \A s \in C19_Scores(k) : ScoreGe(cfg.semantic_threshold, s)

\* find_semantic_match returns the first entry of the highest score
C19_FirstSeenWins(k) ==
    LET match == find_semantic_match(StockEntries, Vec(k), cfg.semantic_threshold)
        score(e) == cosine_similarity(Vec(k), StockEntries[e].topic_embedding)
    IN match.found =>
          /\ \A e \in 1..Len(StockEntries) : ScoreGe(match.score, score(e))
          /\ \A e \in 1..(match.entry - 1) : ScoreGt(match.score, score(e))
          /\ ScoreGe(score(match.entry), match.score)

\* C19: for every threshold in [0, 1], 0 included, a candidate whose best score
\* over the consulted references equals the threshold exactly is a semantic
\* duplicate (acceptance is >=), and the search for the best score is strict, so
\* that among references of equal score the first one wins
C19_AcceptanceAtThreshold ==
    Embedded =>
        \A k \in 1..Len(p1.candidates) :
            Vec(k) # <<>> =>
                /\ C19_BestEqualsThreshold(k) =>
                      /\ ~IsNew(p1.candidates[k])
                      /\ SuppressedAs(p1.candidates[k], "semantic_duplicate")
                /\ C19_FirstSeenWins(k)

\* C21: canonicalize_url is idempotent: applied to what it returned, it returns
\* the same, also for hosts with several leading "www." labels, upper-case
\* scheme or host, tracking parameters and fragments
C21_CanonicalizeIdempotent ==
    outputs.recanonical # <<>> => outputs.recanonical[1] = outputs.canonical[1]

\* C22: two URLs that differ only in tracking parameters, in the order of
\* parameters with distinct keys, in the letter case of scheme or host, in one
\* leading "www." of the host or in the fragment have one canonical URL, and the
\* empty URL has the empty one
C22_EquivalentUrlsAgree ==
    /\ Len(outputs.canonical) = 2 => outputs.canonical[1] = outputs.canonical[2]
    /\ (Len(outputs.canonical) >= 1 /\ inputs.urls[1] = EmptyUrl) => outputs.canonical[1] = EmptyUrl

\* text consists of lower-case words separated by single spaces
IsNormalized(text) ==
    /\ \A i \in 1..Len(text) : text[i] \in LowerChars \cup DigitChars \cup {" "}
    /\ text # <<>> => (text[1] # " " /\ text[Len(text)] # " ")
    /\ \A i \in 1..(Len(text) - 1) : ~(text[i] = " " /\ text[i + 1] = " ")

\* C23: two titles that differ only in letter case, in characters that are
\* neither alphanumeric nor whitespace, or in the amount of leading, trailing
\* or repeated whitespace have one fingerprint; normalize_text is idempotent
\* and returns lower-case words separated by single spaces
C23_FingerprintStable ==
    /\ Len(outputs.fingerprints) = 2 => outputs.fingerprints[1] = outputs.fingerprints[2]
    /\ outputs.renormalized # <<>> => outputs.renormalized[1] = outputs.normalized[1]
    /\ \A i \in 1..Len(outputs.normalized) : IsNormalized(outputs.normalized[i])

\* the arguments of call i of cosine_similarity: the vectors as given, then exchanged
CosineArgs(i) == IF i = 1 THEN inputs.vecs ELSE <<inputs.vecs[2], inputs.vecs[1]>>

\* a vector of norm 0
ZeroNorm(vec) == \A n \in 1..Len(vec) : vec[n] = 0

\* a vector of norm 1
UnitVector(vec) == DotFrom(vec, vec, 1) = 1

\* C24: cosine_similarity returns exactly 0.0 when a vector is empty, when the
\* lengths differ and when a vector has norm 0; it returns 1.0 for two identical
\* unit vectors and 0.0 for orthogonal vectors; and it returns the same for the
\* arguments exchanged
C24_CosineSimilarity ==
    /\ \A i \in 1..Len(outputs.similarities) :
          LET vec_a == CosineArgs(i)[1]
              vec_b == CosineArgs(i)[2]
              score == outputs.similarities[i]
          IN /\ (vec_a = <<>> \/ vec_b = <<>> \/ Len(vec_a) # Len(vec_b)
                    \/ ZeroNorm(vec_a) \/ ZeroNorm(vec_b)) => score = Zero
             /\ (vec_a = vec_b /\ UnitVector(vec_a)) =>
                    (score.num > 0 /\ score.num * score.num = score.den2)
             /\ (Len(vec_a) = Len(vec_b) /\ DotFrom(vec_a, vec_b, 1) = 0) => score.num = 0
    /\ Len(outputs.similarities) = 2 => outputs.similarities[1] = outputs.similarities[2]

\* both calls were made for a zero vector and a unit vector of its length
C24_Witness ==
    /\ Len(outputs.similarities) = 2
    /\ inputs.vecs = <<<<0, 0>>, <<1, 0>>>>
    /\ outputs.similarities = <<Zero, Zero>>

\* the tickers of both lists of the file, in upper case
TickersOf(file) ==
    [i \in 1..(Len(file.portfolio) + Len(file.watchlist)) |->
        TickerUpper((file.portfolio \o file.watchlist)[i].ticker)]

\* no ticker is in the lists of the file twice
NoTickerTwice(file) ==
    \A i, j \in 1..Len(TickersOf(file)) : TickersOf(file)[i] = TickersOf(file)[j] => i = j

\* thread t is about to leave the duplicate test of add_stock, and the ticker
\* of the call is in a list of the file
C25_AddsPresentTicker(t) ==
    /\ threads[t].pc = "check"
    /\ threads[t].op = "add_stock"
    /\ threads'[t].pc # "check"
    /\ threads[t].ticker \in Range(TickersOf(settings_file))

\* C25: whatever add_stock and remove_stock calls the threads make, at the same
\* time or not, no ticker is in portfolio and watchlist more than once, given
\* that none was at the start; and add_stock of a ticker that is in a list
\* raises ValueError, leaves the file as it is and writes no backup
C25_NoTickerTwice ==
    /\ [](NoTickerTwice(settings_file))
    /\ [][\A t \in Threads :
            C25_AddsPresentTicker(t) =>
                /\ threads'[t].raised = "ValueError"
                /\ threads'[t].pc = "idle"
                /\ settings_file' = settings_file
                /\ backups' = backups]_vars

\* one thread has added a ticker with its first call, and the first call of the
\* other thread, an add_stock for this ticker, has raised ValueError
C25_Witness ==
    \E t \in Threads : \E u \in Threads \ {t} :
        /\ threads[t].op = "add_stock"
        /\ threads[t].raised = "ValueError"
        /\ threads[t].ticker # ""
        /\ threads[t].name # ""
        /\ threads[u].op = "add_stock"
        /\ threads[u].pc = "idle"
        /\ threads[u].raised = ""
        /\ threads[u].ticker = threads[t].ticker
        /\ threads[t].calls = 1
        /\ threads[u].calls = 1
        /\ backups = 1
        /\ settings_file = threads[u].settings

\* C26: every result of the filter partitions the batch: fetched is the length
\* of raw_articles and the sum of exact_dupes, semantic_dupes and new_count;
\* new_count is the length of new_items; suppressed_known_topics holds
\* exact_dupes entries of reason exact_duplicate and semantic_dupes entries of
\* reason semantic_duplicate; and every article is either new or suppressed;
\* whether the filter returned early, after a failure of the provider or after
\* the semantic pass
C26_ResultPartitionsInput ==
    Returned =>
        /\ result.stats.fetched = Len(raw_articles)
        /\ result.stats.fetched =
              result.stats.exact_dupes + result.stats.semantic_dupes + result.stats.new_count
        /\ result.stats.new_count = Len(result.new_items)
        /\ CountReason(result.suppressed_known_topics, "exact_duplicate") = result.stats.exact_dupes
        /\ CountReason(result.suppressed_known_topics, "semantic_duplicate")
              = result.stats.semantic_dupes
        /\ Len(result.suppressed_known_topics)
              = result.stats.exact_dupes + result.stats.semantic_dupes
        /\ \A i \in 1..Len(raw_articles) :
              IsNew(i) # (SuppressedAs(i, "exact_duplicate") \/ SuppressedAs(i, "semantic_duplicate"))

\* a result with one exact duplicate and one semantic duplicate
C26_Witness ==
    /\ Returned
    /\ result.stats.exact_dupes = 1
    /\ result.stats.semantic_dupes = 1
    /\ result.stats.new_count = 0
    /\ Len(raw_articles) = 2

\* the similarities of candidate k to the references pass 2 consults for it: the
\* topic embeddings of the stock's memory window, and, once the batch has a new
\* item with a vector, the vectors of the candidates before k
C30_ScoresConsulted(k) ==
    {cosine_similarity(Vec(k), StockEntries[e].topic_embedding) :
        e \in {e \in 1..Len(StockEntries) : StockEntries[e].topic_embedding # <<>>}}
    \cup {cosine_similarity(Vec(k), Vec(j)) :
            j \in {j \in 1..(k - 1) :
                      /\ Vec(j) # <<>>
                      /\ \E n \in 1..(k - 1) : Vec(n) # <<>> /\ IsNew(p1.candidates[n])}}

\* C30: the similarity recorded with an item suppressed as semantic_duplicate
\* is the highest cosine similarity of the candidate over the pools consulted,
\* the memory embeddings of the stock and the in-batch embeddings, and it is not
\* below semantic_threshold (scores are exact here; the rounding to 4 decimals
\* is left out)
C30_RecordedSimilarityIsBest ==
    Embedded =>
        \A n \in 1..Len(result.suppressed_known_topics) :
            LET topic == result.suppressed_known_topics[n]
                k == CHOOSE k \in 1..Len(p1.candidates) : p1.candidates[k] = topic.article
            IN topic.reason = "semantic_duplicate" =>
                  /\ AtLeastThreshold(topic.similarity)
                  /\ \E s \in C30_ScoresConsulted(k) : ScoreGe(s, topic.similarity)
                  /\ \A s \in C30_ScoresConsulted(k) : ScoreGe(topic.similarity, s)

\* article i was rejected in pass 1 and its URL hash gives a reason for that: URL
\* dedupe is on and the hash, not empty, is that of an earlier survivor of the
\* batch or of a memory entry of the stock's window
C29_RejectedByUrl(i) ==
    /\ cfg.exact_url_dedupe
    /\ HashOf(i) # NoHash
    /\ \/ \E j \in 1..(i - 1) : IsCandidate(j) /\ HashOf(j) = HashOf(i)
       \/ \E e \in 1..Len(StockEntries) : StockEntries[e].canonical_url_hash = HashOf(i)

\* the same for its title fingerprint
C29_RejectedByTitle(i) ==
    /\ cfg.exact_title_dedupe
    /\ \/ \E j \in 1..(i - 1) : IsCandidate(j) /\ FingerprintOf(j) = FingerprintOf(i)
       \/ \E e \in 1..Len(StockEntries) : StockEntries[e].title_fingerprint = FingerprintOf(i)

\* C29: an article whose title is missing, empty or normalizes to the empty
\* string is never an exact duplicate because of its title fingerprint, neither
\* of a memory entry nor of another such article of the batch; and an article
\* without link is never an exact duplicate because of its (empty) URL hash
C29_MissingTitleOrLinkNeverMatches ==
    Pass1Over =>
        \A i \in 1..Len(raw_articles) :
            /\ (normalize_text(raw_articles[i].title) = <<>> /\ ~IsCandidate(i))
                  => C29_RejectedByUrl(i)
            /\ (raw_articles[i].link = EmptyUrl /\ ~IsCandidate(i))
                  => C29_RejectedByTitle(i)

\* entries a and b of a store are of one stock, carry one title fingerprint or
\* one non-empty URL hash, and were sent less than lookback_days apart
C27_Repeats(a, b, lookback_days) ==
    /\ a.stock_name = b.stock_name
    /\ \/ a.title_fingerprint = b.title_fingerprint
       \/ a.canonical_url_hash # NoHash /\ a.canonical_url_hash = b.canonical_url_hash
    /\ a.date_sent.valid /\ b.date_sent.valid
    /\ a.date_sent.day - b.date_sent.day < lookback_days
    /\ b.date_sent.day - a.date_sent.day < lookback_days

\* C27: with both exact-dedupe flags on, whatever portfolio and watchlist hold,
\* the store never holds two entries of one stock with one title fingerprint, or
\* one non-empty URL hash, sent less than lookback_days apart
C27_NoRepeatedEntry ==
    \A i, j \in 1..Len(run_memory.entries) :
        i # j => ~C27_Repeats(run_memory.entries[i], run_memory.entries[j],
                              GatherConfig.lookback_days)

\* run r has analysed its fetch, and the filter has run on it
C28_Filtered(r) ==
    /\ runs[r].pc \in {"analysed", "sent"}
    /\ runs[r].raw_articles # <<>>
    /\ runs[r].novelty_cfg.enabled

\* new_items as the filter returned it to run r
C28_NewItems(r) == runs[r].new_items

\* how many articles of new_items the truncation of run r leaves
C28_Kept(r) ==
    IF Len(C28_NewItems(r)) <= runs[r].novelty_cfg.max_news_per_stock
    THEN Len(C28_NewItems(r))
    ELSE runs[r].novelty_cfg.max_news_per_stock

\* the pending entries of run r are those of the first max_news_per_stock
\* articles of new_items, one each and in their order
C28_OnePendingEntryPerKeptArticle(r) ==
    /\ Len(runs[r].pending_memory_entries) = C28_Kept(r)
    /\ \A k \in 1..C28_Kept(r) :
          LET article == runs[r].raw_articles[C28_NewItems(r)[k]]
              entry == runs[r].pending_memory_entries[k]
          IN /\ runs[r].candidate_articles[k] = C28_NewItems(r)[k]
             /\ entry.stock_name = RunStock
             /\ entry.title = article.title
             /\ entry.link = article.link
             /\ entry.date_sent = Timestamp(runs[r].analysis_day)

\* entry e was built from article a
C28_EntryOf(e, a) == e.title = a.title /\ e.link = a.link

\* the articles of new_items that run r has cut
C28_CutBy(r) ==
    {runs[r].raw_articles[C28_NewItems(r)[k]] : k \in (C28_Kept(r) + 1)..Len(C28_NewItems(r))}

\* the store that run r saves holds no entry of an article it cut or the filter
\* suppressed, other than those it had loaded
C28_NoEntryOfOthers(r) ==
    (runs[r].pc = "sent" /\ runs'[r].pc = "idle" /\ C28_Filtered(r) /\ disk' # disk) =>
        \A e \in Range(load_memory(disk').entries) :
            \/ e \in Range(runs[r].memory.entries)
            \/ \E k \in 1..C28_Kept(r) :
                  C28_EntryOf(e, runs[r].raw_articles[C28_NewItems(r)[k]])

\* an article that a run has accepted and cut, of which the loaded store holds
\* no entry, is in new_items where run r fetches it
C28_CutIsNewAgain(r) ==
    (runs[r].pc = "loaded" /\ runs'[r].pc = "analysed" /\ C28_Filtered(r)') =>
        \A i \in 1..Len(runs'[r].raw_articles) :
            LET article == runs'[r].raw_articles[i]
            IN (/\ article \in cut
                /\ \A j \in 1..(i - 1) : runs'[r].raw_articles[j] # article
                /\ \A e \in Range(runs[r].memory.entries) : ~C28_EntryOf(e, article))
               => i \in Range(C28_NewItems(r)')

\* C28: a run builds exactly one pending entry per article that is left of the
\* filter's new_items after the truncation to max_news_per_stock, none for an
\* article that was cut or suppressed; a cut article is therefore not in the
\* store and is new again in the run that fetches it next
C28_PendingEntriesFollowTruncation ==
    /\ [](\A r \in RunIds : C28_Filtered(r) => C28_OnePendingEntryPerKeptArticle(r))
    /\ [][\A r \in RunIds : C28_NoEntryOfOthers(r) /\ C28_CutIsNewAgain(r)]_vars

\* a run has loaded a store another run saved, fetched an article that was cut
\* before next to the one that was kept, and accepts the former
C28_Witness ==
    \E r \in RunIds :
        /\ C28_Filtered(r)
        /\ Len(runs[r].raw_articles) = 2
        /\ runs[r].raw_articles[2] \in cut
        /\ runs[r].memory.entries # <<>>
        /\ \A e \in Range(runs[r].memory.entries) :
              /\ C28_EntryOf(e, runs[r].raw_articles[1])
              /\ e.date_sent = Timestamp(runs[r].analysis_day)
        /\ runs[r].candidate_articles = <<2>>
        /\ Len(runs[r].pending_memory_entries) = 1
        /\ C28_EntryOf(runs[r].pending_memory_entries[1], runs[r].raw_articles[2])

============================================================================
